---- MODULE Spec2Model ----
(***************************************************************************)
(* Model of the scripted-browser login (services/admanager_service.py), of *)
(* the create-URL action (services/create_url_service.py) and of the       *)
(* commands check_login.py, import_cookies.py and export_cookies.py.       *)
(*                                                                         *)
(* The program is sequential: one coroutine drives one page.  A state of   *)
(* the model is the position of that coroutine (pc), the values of its     *)
(* locals, and the state of the browser and of the page it drives.  Every  *)
(* call of a browser-driver primitive either returns or raises; a page URL *)
(* is whatever the remote service makes it.                                *)
(***************************************************************************)
EXTENDS Integers, Sequences, FiniteSets, TLC

VARIABLES
    pc,           \* position of the coroutine
    network,      \* the network argument of the operation
    browser,      \* "none" | "open" | "closed": the persistent context
    url,          \* page.url
    attempt,      \* _login_with_retry: the loop variable
    result,       \* the last value returned by _login / _login_with_retry
    current_url,  \* _login: the local read at the final check
    verification_result,  \* _login: the value the verification handler returned
    ret,          \* the value login_only / create_url returned
    logins,       \* history: number of calls of _login
    waits,        \* history: the inter-attempt waits performed, in ms
    steps,        \* history: the authentication steps of the current attempt
    landed,       \* history: page.url right after goto in the current attempt
    raised,       \* history: the current attempt raised inside _login's try
    shots,        \* history: screenshots taken in the current attempt
    data,         \* create_url: the url_data argument
    op,           \* create_url: the selector-resolution operation in progress
    stage,        \* create_url: the stage of that operation (dropdown, option)
    sattempt,     \* create_url: that operation's loop variable
    strat,        \* create_url: the strategy about to be tried (1-based)
    tried,        \* history: the strategies invoked in the current try of the list
    tries,        \* history: the number of tries of the list in the current operation
    present,      \* the page: whether the control the operation looks for exists
    acted,        \* history: the operation performed its interaction on the control
    won,          \* history: the strategy that completed in the current try, or 0
    ui,           \* history: the UI interactions performed by create_url
    error,        \* create_url: the exception in flight or last caught
    service,      \* the remote service: "any" page at all, or "sso" (session decides)
    session,      \* the session store of the profile holds a valid session
    phase,        \* the position in a sequence of operations on one profile
    first,        \* the value the first operation of that sequence returned
    source,       \* the cookies to convert: of the cookies file, or of the browser
    converted,    \* the cookies after conversion to the other format
    store,        \* the cookies of the browser context the operation put or read
    files,        \* the files written by the operation
    vlog,         \* history: what the verification handler did in this invocation
    peer          \* a second operation started on the same machine: its browser

(***************************************************************************)
(* Program constants                                                       *)
(***************************************************************************)
max_retries == 5

retry_delay == 10

IDP == "accounts.google.com"

CONSOLE == "admanager.google.com"

(***************************************************************************)
(* Inputs.  A URL is the sequence of its parts: host, path, then the       *)
(* parts of its query string.  The identity provider's sign-in URL may     *)
(* carry the address it will continue to.                                  *)
(***************************************************************************)
Networks == {"111", "222"}

NoURL == << >>

BlankURL == <<"about:blank">>

ConsoleURLs == {<<CONSOLE, n>> : n \in Networks} \cup {<<CONSOLE, "home">>}

IdpURLs ==
    {<<IDP, "signin">>} \cup {<<IDP, "signin", "continue", CONSOLE, n>> : n \in Networks}

AllURLs == ConsoleURLs \cup IdpURLs

\* `needle in page.url`: the text occurs somewhere in the URL.
Contains(u, needle) == \E i \in 1..Len(u) : u[i] = needle

\* The host part of a URL: the domain the page belongs to.
Host(u) == IF Len(u) = 0 THEN "" ELSE u[1]

\* The pages a navigation to the console may end on.  A service of kind "sso"
\* redirects to the identity provider exactly when the session store holds no
\* valid session; a service of kind "any" shows any page.
Landing(svc, sess) ==
    IF svc = "sso" THEN (IF sess THEN ConsoleURLs ELSE IdpURLs) ELSE AllURLs

\* The pages a step of the sign-in may leave the page on: with "sso" the page
\* stays with the identity provider until the sign-in completes, which it can
\* only once the password is submitted (canAuth).
Progress(svc, sess, u, canAuth) ==
    IF svc = "sso"
    THEN IF sess THEN {u} ELSE IdpURLs \cup (IF canAuth THEN ConsoleURLs ELSE {})
    ELSE AllURLs

\* The session store after the page reached u: with "sso" the console is shown
\* only to a signed-in profile, and the profile keeps the session.
SessionAfter(svc, sess, u) ==
    IF svc = "sso" THEN sess \/ Host(u) = CONSOLE ELSE sess

\* page.wait_for_url("**admanager.google.com**"): the glob matches the whole
\* URL text, ** matching any characters.
GlobMatches(u) == Contains(u, CONSOLE)

(***************************************************************************)
(* Results                                                                 *)
(***************************************************************************)
Result(ok, msg) == [data |-> "None", success |-> ok, message |-> msg]

Pending == [pending |-> TRUE]

MsgLoginOk == "Login successful"

MsgEmail == "Failed at email step"

MsgPassword == "Failed at password step"

MsgNoRedirect == "Did not redirect to Ad Manager after verification"

MsgWrongTenant == "Login verification failed. Expected admanager with network"

MsgAuthError == "Authentication error"

MsgExhausted == "Failed to login after 5 attempts"

MsgDemoError == "Demo login error"

MsgVerified == "Verification step passed"

loginVars ==
    <<attempt, current_url, verification_result, logins, waits, steps, landed, raised, shots>>

createVars ==
    <<data, op, stage, sattempt, strat, tried, tries, present, acted, won, ui, error>>

\* The history of the verification handler is kept by the specification of the
\* handler alone; the other specifications leave it unrecorded.
Unrecorded == << <<"unrecorded", "">> >>

envRest == <<service, phase, first, source, converted, store, files>>

envVars == <<envRest, vlog>>

vars == <<pc, network, browser, url, result, ret, loginVars, createVars, envVars, session, peer>>

(***************************************************************************)
(* Initial states                                                          *)
(***************************************************************************)
NoData == [url |-> "", inventory_type |-> "", brand_type |-> ""]

CreateIdle ==
    /\ data = NoData
    /\ op = "none"
    /\ stage = 0
    /\ sattempt = 0
    /\ strat = 0
    /\ tried = << >>
    /\ tries = 0
    /\ present = << >>
    /\ acted = FALSE
    /\ won = 0
    /\ ui = << >>
    /\ error = "none"

LoginIdle ==
    /\ attempt = 0
    /\ current_url = NoURL
    /\ verification_result = Pending
    /\ logins = 0
    /\ waits = << >>
    /\ steps = << >>
    /\ landed = NoURL
    /\ raised = FALSE
    /\ shots = {}

\* No sequence of operations, no cookies, and a remote service that may show
\* any page whatever the session store holds.
\* No second operation is running.
NoPeer == [op |-> "none", pc |-> "none", browser |-> "none", dir |-> "none"]

EnvIdle ==
    /\ peer = NoPeer
    /\ service = "any"
    /\ session = FALSE
    /\ phase = 0
    /\ first = Pending
    /\ source = << >>
    /\ converted = << >>
    /\ store = << >>
    /\ files = {}
    /\ vlog = Unrecorded

Init ==
    /\ pc = "lo_start"
    /\ network \in Networks
    /\ browser = "none"
    /\ url = NoURL
    /\ result = Pending
    /\ ret = Pending
    /\ LoginIdle
    /\ CreateIdle
    /\ EnvIdle

(***************************************************************************)
(* login_only: acquisition of the browser                                  *)
(***************************************************************************)
\* A try that begins only once the page exists.
LoginOnlyHandlerNarrow(at) ==
    IF at \in {"lo_start", "lo_mkdir", "lo_launch", "lo_newpage"}
    THEN "lo_escaped"
    ELSE "lo_except"

\* Where an exception raised at position `at` of login_only (or propagated to
\* it from _login_with_retry) is caught: the try of login_only spans its body.
LoginOnlyHandler(at) == "lo_except"

\* pw = await async_playwright().start()
StartPlaywright ==
    /\ pc = "lo_start"
    /\ \E ok \in BOOLEAN : pc' = IF ok THEN "lo_mkdir" ELSE LoginOnlyHandler("lo_start")
    /\ UNCHANGED <<network, peer, envVars, session, browser, url, result, ret, loginVars, createVars>>

\* user_data_dir.mkdir(exist_ok=True, parents=True)
MakeUserDataDir ==
    /\ pc = "lo_mkdir"
    /\ \E ok \in BOOLEAN : pc' = IF ok THEN "lo_launch" ELSE LoginOnlyHandler("lo_mkdir")
    /\ UNCHANGED <<network, peer, envVars, session, browser, url, result, ret, loginVars, createVars>>

\* browser = await pw.chromium.launch_persistent_context(...)
LaunchBrowser ==
    /\ pc = "lo_launch"
    /\ \E ok \in BOOLEAN :
        /\ pc' = IF ok THEN "lo_newpage" ELSE LoginOnlyHandler("lo_launch")
        /\ browser' = IF ok THEN "open" ELSE browser
    /\ UNCHANGED <<network, peer, envVars, session, url, result, ret, loginVars, createVars>>

\* page = await browser.new_page(); then the call of _login_with_retry
NewPage ==
    /\ pc = "lo_newpage"
    /\ \E ok \in BOOLEAN :
        /\ pc' = IF ok THEN "r_loop" ELSE LoginOnlyHandler("lo_newpage")
        /\ url' = IF ok THEN BlankURL ELSE url
    /\ UNCHANGED <<network, peer, envVars, session, browser, result, ret, loginVars, createVars>>

(***************************************************************************)
(* _login_with_retry                                                       *)
(***************************************************************************)
\* No delay between attempts.
ShouldDelayNever(a) == FALSE

\* A loop that makes one attempt.
MoreAttemptsOnce(a) == a < 1

\* for attempt in range(self.max_retries)
MoreAttempts(a) == a < max_retries

\* A delay after every failed attempt, the last one included.
ShouldDelayAlways(a) == a < max_retries

\* if attempt < self.max_retries - 1
ShouldDelay(a) == a < max_retries - 1

\* An attempt that resumes at the step the previous attempt failed at.
AttemptEntryResumes(previous) ==
    IF previous = Result(FALSE, MsgPassword) THEN "l_pw_wait" ELSE "l_goto"

\* result = await self._login(page, network, task_id): the call enters _login
\* at its first statement, whatever the previous attempt returned.
AttemptEntry(previous) == "l_goto"

\* The head of the loop: call _login, or leave the loop and return the failure.
RetryLoop ==
    /\ pc = "r_loop"
    /\ IF MoreAttempts(attempt)
       THEN /\ pc' = AttemptEntry(result)
            /\ logins' = logins + 1
            /\ steps' = << >>
            /\ landed' = NoURL
            /\ raised' = FALSE
            /\ shots' = {}
            /\ UNCHANGED result
       ELSE /\ pc' = "lo_result"
            /\ result' = Result(FALSE, MsgExhausted)
            /\ UNCHANGED <<logins, steps, landed, raised, shots>>
    /\ UNCHANGED <<network, peer, envVars, session, browser, url, ret, attempt, current_url, verification_result,
                   waits, createVars>>

\* The value _login returned: return it on success, else wait or go on.
RetryCheck ==
    /\ pc = "r_check"
    /\ IF result.success
       THEN pc' = "lo_result" /\ UNCHANGED attempt
       ELSE IF ShouldDelay(attempt)
            THEN pc' = "r_wait" /\ UNCHANGED attempt
            ELSE pc' = "r_loop" /\ attempt' = attempt + 1
    /\ UNCHANGED <<network, peer, envVars, session, browser, url, result, ret, current_url, verification_result,
                   logins, waits, steps, landed, raised, shots, createVars>>

\* await page.wait_for_timeout(self.retry_delay * 1000)
RetryWait ==
    /\ pc = "r_wait"
    /\ \E ok \in BOOLEAN :
        IF ok
        THEN /\ pc' = "r_loop"
             /\ attempt' = attempt + 1
             /\ waits' = Append(waits, retry_delay * 1000)
        ELSE /\ pc' = LoginOnlyHandler("r_wait")
             /\ UNCHANGED <<attempt, waits>>
    /\ UNCHANGED <<network, peer, envVars, session, browser, url, result, ret, current_url, verification_result,
                   logins, steps, landed, raised, shots, createVars>>

(***************************************************************************)
(* _login: one attempt                                                     *)
(***************************************************************************)
\* The sign-in steps whatever the URL.
NeedsAuthAlways(u) == TRUE

\* if "accounts.google.com" in page.url
NeedsAuth(u) == Contains(u, IDP)

\* if "admanager.google.com" not in current_url or network not in current_url
FinalCheckFails(u, n) == ~Contains(u, CONSOLE) \/ ~Contains(u, n)

\* The password step first: the email step's statements left out.
LoginNextSkipsEmail(at) ==
    CASE at = "l_email_wait" -> "l_pw_fill"
      [] at = "l_pw_fill" -> "l_pw_click"
      [] at = "l_pw_click" -> "l_settle"
      [] at = "l_settle" -> "v_call"
      [] OTHER -> "l_except"

\* A settle wait that is never over: the attempt stays in it.
LoginNextNeverSettles(at) ==
    CASE at = "l_email_wait" -> "l_email_fill"
      [] at = "l_email_fill" -> "l_email_click"
      [] at = "l_email_click" -> "l_pw_wait"
      [] at = "l_pw_wait" -> "l_pw_fill"
      [] at = "l_pw_fill" -> "l_pw_click"
      [] at = "l_pw_click" -> "l_settle"
      [] at = "l_settle" -> "l_settle"
      [] OTHER -> "l_except"

\* The statement that follows the primitive at position `at` when it returns.
LoginNext(at) ==
    CASE at = "l_email_wait" -> "l_email_fill"
      [] at = "l_email_fill" -> "l_email_click"
      [] at = "l_email_click" -> "l_pw_wait"
      [] at = "l_pw_wait" -> "l_pw_fill"
      [] at = "l_pw_fill" -> "l_pw_click"
      [] at = "l_pw_click" -> "l_settle"
      [] at = "l_settle" -> "v_call"
      [] OTHER -> "l_except"

\* await page.goto(url, timeout=60000)
Goto ==
    /\ pc = "l_goto"
    /\ \E ok \in BOOLEAN :
        IF ok
        THEN /\ url' \in Landing(service, session)
             /\ landed' = url'
             /\ pc' = "l_branch"
             /\ UNCHANGED raised
        ELSE /\ pc' = "l_except"
             /\ raised' = TRUE
             /\ UNCHANGED <<url, landed>>
    /\ UNCHANGED <<network, peer, envVars, session, browser, result, ret, attempt, current_url, verification_result,
                   logins, waits, steps, shots, createVars>>

\* The branch on the URL the navigation ended on.
Branch ==
    /\ pc = "l_branch"
    /\ pc' = IF NeedsAuth(url) THEN "l_email_wait" ELSE "l_final"
    /\ UNCHANGED <<network, peer, envVars, session, browser, url, result, ret, loginVars, createVars>>

\* One primitive of the email or of the password step, inside that step's try:
\* when it raises, the attempt returns the step's failure.
AuthPrimitive(at, failMsg, step, navigates) ==
    /\ pc = at
    /\ \E ok \in BOOLEAN :
        IF ok
        THEN /\ pc' = LoginNext(at)
             /\ steps' = IF step = "" THEN steps ELSE Append(steps, step)
             /\ url' \in (IF navigates
                          THEN Progress(service, session, url, at = "l_pw_click")
                          ELSE {url})
             /\ UNCHANGED result
        ELSE /\ pc' = "r_check"
             /\ result' = Result(FALSE, failMsg)
             /\ UNCHANGED <<steps, url>>
    /\ session' = SessionAfter(service, session, url')
    /\ UNCHANGED <<network, peer, envVars, browser, ret, attempt, current_url, verification_result,
                   logins, waits, landed, raised, shots, createVars>>

\* await page.wait_for_selector("#identifierId", state="visible", timeout=30000)
EmailWait == AuthPrimitive("l_email_wait", MsgEmail, "", FALSE)

\* await page.fill("#identifierId", self.config.GOOGLE_EMAIL)
EmailFill == AuthPrimitive("l_email_fill", MsgEmail, "email_fill", FALSE)

\* await page.click("#identifierNext")
EmailClick == AuthPrimitive("l_email_click", MsgEmail, "email_submit", TRUE)

\* await page.wait_for_selector('input[name="Passwd"]', timeout=30000)
PasswordWait == AuthPrimitive("l_pw_wait", MsgPassword, "", FALSE)

\* await page.fill('input[name="Passwd"]', self.config.GOOGLE_PASSWORD)
PasswordFill == AuthPrimitive("l_pw_fill", MsgPassword, "password_fill", FALSE)

\* await page.click("#passwordNext")
PasswordClick == AuthPrimitive("l_pw_click", MsgPassword, "password_submit", TRUE)

\* await page.wait_for_timeout(10000): the page goes where the sign-in takes it.
Settle ==
    /\ pc = "l_settle"
    /\ \E ok \in BOOLEAN :
        IF ok
        THEN /\ pc' = LoginNext("l_settle")
             /\ url' \in Progress(service, session, url, TRUE)
             /\ UNCHANGED raised
        ELSE /\ pc' = "l_except"
             /\ raised' = TRUE
             /\ UNCHANGED url
    /\ session' = SessionAfter(service, session, url')
    /\ UNCHANGED <<network, peer, envVars, browser, result, ret, attempt, current_url, verification_result,
                   logins, waits, steps, landed, shots, createVars>>

\* verification_result = await self._verify_verification_step(page, network)
VerifyCall ==
    /\ pc = "v_call"
    /\ pc' = "v_shot"
    /\ steps' = Append(steps, "verify")
    /\ vlog' = IF vlog = Unrecorded THEN vlog ELSE << >>
    /\ UNCHANGED <<network, peer, envRest, session, browser, url, result, ret, attempt, current_url,
                   verification_result, logins, waits, landed, raised, shots, createVars>>

\* _verify_verification_step: await page.screenshot(path=.../"verification_page.png"),
\* outside every try of the handler: when it raises, _login's handler catches it.
VerifyScreenshot ==
    /\ pc = "v_shot"
    /\ \E ok \in BOOLEAN :
        IF ok
        THEN /\ pc' = "v_body"
             /\ shots' = shots \cup {"verification_page.png"}
             /\ UNCHANGED raised
        ELSE /\ pc' = "l_except"
             /\ raised' = TRUE
             /\ UNCHANGED shots
    /\ UNCHANGED <<network, peer, envVars, session, browser, url, result, ret, attempt, current_url,
                   verification_result, logins, waits, steps, landed, createVars>>

\* What the handler did: <<"try", branch>> on entering a branch's try,
\* <<"detect", branch>> when the branch's keywords are in the page content,
\* <<"raise", branch>> when a primitive of the branch raised, and the clicks,
\* waits, screenshots and files of the branch.
Log(log, events) == IF log = Unrecorded THEN log ELSE log \o events

\* One try around the three branches: what raises in one ends them all.
VerifyHandlerAborts(at) == "v_return"

\* The except clause that catches what the primitive at position `at` raises:
\* the handler goes on after the try of that branch.
VerifyHandler(at) ==
    IF at \in {"v_body", "v_pk_click", "v_pk_wait", "v_pk_continue", "v_alt"}
    THEN "v_device"
    ELSE IF at \in {"v_device", "v_dev_shot", "v_dev_wait", "v_dev_after"}
    THEN "v_generic"
    ELSE "v_return"

\* The detection of the number (two tries that swallow everything), then the
\* passkey branch: content = await page.content(), the HTML file, the keywords,
\* the count of the elements with the exact text.  Without the keywords, the
\* else of line 323: all_buttons and the search of a button with the text.
VerifyPasskey ==
    /\ pc = "v_body"
    /\ \E ok \in BOOLEAN, keywords \in BOOLEAN, found \in BOOLEAN :
        IF ~ok
        THEN /\ pc' = VerifyHandler(pc)
             /\ vlog' = Log(vlog, << <<"try", "passkey">>, <<"raise", "passkey">> >>)
        ELSE IF keywords
        THEN /\ pc' = IF found THEN "v_pk_click" ELSE VerifyHandler(pc)
             /\ vlog' = Log(vlog, << <<"try", "passkey">>, <<"detect", "passkey">> >>)
        ELSE /\ pc' = IF found THEN "v_alt" ELSE VerifyHandler(pc)
             /\ vlog' = Log(vlog, << <<"try", "passkey">> >>)
    /\ UNCHANGED <<network, peer, envRest, session, browser, url, result, ret, loginVars, createVars>>

\* await page.screenshot(path=.../"verify_passkey_before.png");
\* await passkey_selector.first.click()
VerifyPasskeyClick ==
    /\ pc = "v_pk_click"
    /\ \E ok \in BOOLEAN :
        IF ok
        THEN /\ pc' = "v_pk_wait"
             /\ vlog' = Log(vlog, << <<"shot", "verify_passkey_before.png">>,
                                     <<"click", "passkey">> >>)
        ELSE /\ pc' = VerifyHandler(pc)
             /\ vlog' = Log(vlog, << <<"raise", "passkey">> >>)
    /\ UNCHANGED <<network, peer, envRest, session, browser, url, result, ret, loginVars, createVars>>

\* await page.wait_for_selector("button:has-text('Continue'), ...", timeout=
\* VERIFICATION_WAIT_SECONDS * 1000) in its own try: the button appears or the
\* window elapses; then await page.screenshot(path=.../"verify_passkey_after.png")
VerifyPasskeyWait ==
    /\ pc = "v_pk_wait"
    /\ \E appeared \in BOOLEAN, ok \in BOOLEAN :
        LET waited == Log(vlog, IF appeared
                                THEN << <<"wait", "passkey">>, <<"appeared", "continue">> >>
                                ELSE << <<"wait", "passkey">> >>)
        IN  IF ok
            THEN /\ pc' = "v_pk_continue"
                 /\ vlog' = Log(waited, << <<"shot", "verify_passkey_after.png">> >>)
            ELSE /\ pc' = VerifyHandler(pc)
                 /\ vlog' = Log(waited, << <<"raise", "passkey">> >>)
    /\ UNCHANGED <<network, peer, envRest, session, browser, url, result, ret, loginVars, createVars>>

\* The inner try: the count of the buttons named Continue or Continuar, the
\* click when there is one, await page.wait_for_timeout(3000).
VerifyContinue ==
    /\ pc = "v_pk_continue"
    /\ pc' = VerifyHandler(pc)
    /\ \E ok \in BOOLEAN, button \in BOOLEAN :
        vlog' = IF ok /\ button THEN Log(vlog, << <<"click", "continue">> >>) ELSE vlog
    /\ UNCHANGED <<network, peer, envRest, session, browser, url, result, ret, loginVars, createVars>>

\* The alternative of the else: await btn.click(); await page.wait_for_timeout(
\* VERIFICATION_WAIT_SECONDS * 1000); the screenshot; then the try of Continue.
VerifyAlt ==
    /\ pc = "v_alt"
    /\ \E outcome \in {"raised", "clicked", "waited"} :
        /\ pc' = IF outcome = "waited" THEN "v_pk_continue" ELSE VerifyHandler(pc)
        /\ vlog' = Log(vlog,
                       CASE outcome = "raised" -> << <<"raise", "passkey">> >>
                         [] outcome = "clicked" ->
                                << <<"click", "passkey">>, <<"raise", "passkey">> >>
                         [] OTHER ->
                                << <<"click", "passkey">>, <<"wait", "passkey">>,
                                   <<"shot", "verify_passkey_after.png">> >>)
    /\ UNCHANGED <<network, peer, envRest, session, browser, url, result, ret, loginVars, createVars>>

\* The device-approval branch: content = await page.content() and the keywords
\* of the challenge.
VerifyDevice ==
    /\ pc = "v_device"
    /\ \E ok \in BOOLEAN, keywords \in BOOLEAN :
        IF ~ok
        THEN /\ pc' = VerifyHandler(pc)
             /\ vlog' = Log(vlog, << <<"try", "device">>, <<"raise", "device">> >>)
        ELSE IF keywords
        THEN /\ pc' = "v_dev_shot"
             /\ vlog' = Log(vlog, << <<"try", "device">>, <<"detect", "device">> >>)
        ELSE /\ pc' = VerifyHandler(pc)
             /\ vlog' = Log(vlog, << <<"try", "device">> >>)
    /\ UNCHANGED <<network, peer, envRest, session, browser, url, result, ret, loginVars, createVars>>

\* The device-approval branch with a click on the challenge.
DeviceEventsWithClick(at) ==
    CASE at = "v_dev_shot" ->
            << <<"shot", "verification_challenge.png">>,
               <<"file", "verification_challenge_b64.txt">>, <<"click", "challenge">> >>
      [] at = "v_dev_wait" -> << <<"wait", "device">> >>
      [] OTHER -> << <<"shot", "verification_after_wait.png">> >>

\* What the statements of the device-approval branch do: the screenshot and the
\* file of its base64 text; the wait of VERIFICATION_WAIT_SECONDS; the
\* screenshot after the wait.
DeviceEvents(at) ==
    CASE at = "v_dev_shot" ->
            << <<"shot", "verification_challenge.png">>,
               <<"file", "verification_challenge_b64.txt">> >>
      [] at = "v_dev_wait" -> << <<"wait", "device">> >>
      [] OTHER -> << <<"shot", "verification_after_wait.png">> >>

\* One statement group of the device-approval branch, inside the branch's try.
VerifyDeviceStep ==
    /\ pc \in {"v_dev_shot", "v_dev_wait", "v_dev_after"}
    /\ \E ok \in BOOLEAN :
        IF ok
        THEN /\ pc' = CASE pc = "v_dev_shot" -> "v_dev_wait"
                        [] pc = "v_dev_wait" -> "v_dev_after"
                        [] OTHER -> "v_generic"
             /\ vlog' = Log(vlog, DeviceEvents(pc))
        ELSE /\ pc' = VerifyHandler(pc)
             /\ vlog' = Log(vlog, << <<"raise", "device">> >>)
    /\ UNCHANGED <<network, peer, envRest, session, browser, url, result, ret, loginVars, createVars>>

\* The generic branch: await page.wait_for_selector("button#identifierNext",
\* state="visible", timeout=3000), the screenshot, the click and the wait of
\* 5000 ms; except Exception: pass.
VerifyGeneric ==
    /\ pc = "v_generic"
    /\ pc' = "v_return"
    /\ \E visible \in BOOLEAN, ok \in BOOLEAN :
        vlog' = Log(vlog,
                    IF ~visible THEN << <<"try", "generic">> >>
                    ELSE IF ok
                    THEN << <<"try", "generic">>, <<"detect", "generic">>,
                            <<"shot", "verify.png">>, <<"click", "identifierNext">> >>
                    ELSE << <<"try", "generic">>, <<"detect", "generic">>,
                            <<"raise", "generic">> >>)
    /\ UNCHANGED <<network, peer, envRest, session, browser, url, result, ret, loginVars, createVars>>

\* _verify_verification_step: the branches, each in its own try.
VerifyBranches ==
    \/ VerifyPasskey
    \/ VerifyPasskeyClick
    \/ VerifyPasskeyWait
    \/ VerifyContinue
    \/ VerifyAlt
    \/ VerifyDevice
    \/ VerifyDeviceStep
    \/ VerifyGeneric

\* The return of the passed result; the human answers the challenge or not,
\* so the page is anywhere afterwards.
VerifyReturn ==
    /\ pc = "v_return"
    /\ pc' = "l_verified"
    /\ url' \in Progress(service, session, url, TRUE)
    /\ session' = SessionAfter(service, session, url')
    /\ verification_result' = Result(TRUE, MsgVerified)
    /\ UNCHANGED vlog
    /\ UNCHANGED <<network, peer, envRest, browser, result, ret, attempt, current_url,
                   logins, waits, steps, landed, raised, shots, createVars>>

\* if not verification_result["success"]: return verification_result
Verified ==
    /\ pc = "l_verified"
    /\ IF ~verification_result.success
       THEN pc' = "r_check" /\ result' = verification_result
       ELSE pc' = "l_wait_url" /\ UNCHANGED result
    /\ UNCHANGED <<network, peer, envVars, session, browser, url, ret, loginVars, createVars>>

\* await page.wait_for_url("**admanager.google.com**", timeout=45000): returns
\* at once when the URL matches, else when the page reaches a URL that does;
\* raises on the timeout, and the attempt returns the no-redirect failure.
WaitForUrl ==
    /\ pc = "l_wait_url"
    /\ \/ /\ \E u \in {x \in Progress(service, session, url, TRUE) \cup {url} : GlobMatches(x)} :
               /\ GlobMatches(url) => u = url
               /\ url' = u
          /\ pc' = "l_final"
          /\ UNCHANGED result
       \/ /\ ~GlobMatches(url)
          /\ pc' = "r_check"
          /\ result' = Result(FALSE, MsgNoRedirect)
          /\ UNCHANGED url
    /\ session' = SessionAfter(service, session, url')
    /\ UNCHANGED <<network, peer, envVars, browser, ret, loginVars, createVars>>

\* current_url = page.url, and the check of the console host and of the network
FinalCheck ==
    /\ pc = "l_final"
    /\ current_url' = url
    /\ IF FinalCheckFails(url, network)
       THEN pc' = "r_check" /\ result' = Result(FALSE, MsgWrongTenant)
       ELSE pc' = "l_idle" /\ UNCHANGED result
    /\ UNCHANGED <<network, peer, envVars, session, browser, url, ret, attempt, verification_result,
                   logins, waits, steps, landed, raised, shots, createVars>>

\* await page.wait_for_load_state("networkidle", timeout=15000), in its own try
NetworkIdle ==
    /\ pc = "l_idle"
    /\ pc' = "l_settle3"
    /\ UNCHANGED <<network, peer, envVars, session, browser, url, result, ret, loginVars, createVars>>

\* await page.wait_for_timeout(3000); return the success result
SettleAndReturn ==
    /\ pc = "l_settle3"
    /\ \E ok \in BOOLEAN :
        IF ok
        THEN /\ pc' = "r_check"
             /\ result' = Result(TRUE, MsgLoginOk)
             /\ UNCHANGED raised
        ELSE /\ pc' = "l_except"
             /\ raised' = TRUE
             /\ UNCHANGED result
    /\ UNCHANGED <<network, peer, envVars, session, browser, url, ret, attempt, current_url, verification_result,
                   logins, waits, steps, landed, shots, createVars>>

\* except Exception: await page.screenshot(path=data_dir / "login.png") and the
\* return of the failure; the screenshot is in no try of _login.
LoginExcept ==
    /\ pc = "l_except"
    /\ \E ok \in BOOLEAN :
        IF ok
        THEN /\ pc' = "r_check"
             /\ result' = Result(FALSE, MsgAuthError)
             /\ shots' = shots \cup {"login.png"}
        ELSE /\ pc' = LoginOnlyHandler("l_except")
             /\ UNCHANGED <<result, shots>>
    /\ UNCHANGED <<network, peer, envVars, session, browser, url, ret, attempt, current_url, verification_result,
                   logins, waits, steps, landed, raised, createVars>>

(***************************************************************************)
(* Cookies (import_cookies.py, export_cookies.py)                          *)
(*                                                                         *)
(* A text is a word and the letter case it is written in, so that          *)
(* str.lower and str.capitalize change the text and a comparison with a    *)
(* literal is exact.  A domain is the sequence of its parts, so that       *)
(* `needle in domain` is the occurrence of a part.                         *)
(***************************************************************************)
MaxCookies == 1

Forms == {"lower", "capitalized", "upper", "mixed"}

Str(w, f) == [word |-> w, form |-> IF w = "" THEN "lower" ELSE f]

\* JSON null, read by json.load as None.
PyNone == [word |-> "", form |-> "null"]

\* The key is not in the cookie's dict.
Missing == [word |-> "", form |-> "missing"]

SameSiteStrict == Str("strict", "capitalized")

SameSiteLax == Str("lax", "capitalized")

SameSiteNone == Str("none", "capitalized")

SameSiteEnum == {SameSiteStrict, SameSiteLax, SameSiteNone}

\* str.lower()
Lower(t) == Str(t.word, "lower")

\* str.capitalize(): the first letter upper case, the rest lower case.
Capitalize(t) == Str(t.word, "capitalized")

\* cookie.get("sameSite", default)
GetSameSite(cookie, default) ==
    IF cookie.sameSite = Missing THEN default ELSE cookie.sameSite

Domains ==
    {<<".", "google.com">>, <<"admanager", ".", "google.com">>,
     <<"not", "google.com">>, <<"example.com">>}

\* The values of sameSite a cookies file may hold.
SourceSameSite ==
    {Str(w, f) : w \in {"unspecified", "no_restriction", "lax", "strict", "none", "bogus"},
                 f \in Forms}
        \cup {Str("", "lower"), PyNone, Missing}

\* The cookies of a cookies file, in the format of the browser extensions.
PortableCookies ==
    [domain : {<<".", "google.com">>, <<"example.com">>}, expirationDate : {-1},
     hostOnly : {FALSE}, httpOnly : {FALSE}, name : {"SID"}, path : {"/"},
     sameSite : SourceSameSite, secure : BOOLEAN, session : {TRUE},
     storeId : {"0"}, value : {"v"}]

\* The cookies browser.cookies() returns.
BrowserCookies ==
    [name : {"SID", "NID"}, value : {"v"}, domain : Domains, path : {"/"},
     expires : {-1, 1900}, httpOnly : BOOLEAN, secure : BOOLEAN,
     sameSite : SameSiteEnum]

\* The lists of at most MaxCookies cookies of a set.
Lists(S) == UNION {[1..n -> S] : n \in 0..MaxCookies}

\* A normalization without the guarantee of an accepted value.
NormalizeSameSiteUnguarded(cookie) ==
    LET same_site == GetSameSite(cookie, SameSiteLax)
    IN  IF same_site \in {Str("unspecified", "lower"), Str("no_restriction", "lower"),
                          PyNone, Str("", "lower")}
        THEN IF cookie.secure THEN SameSiteNone ELSE SameSiteLax
        ELSE Capitalize(same_site)

\* A normalization that compares the text as it is written in the file.
NormalizeSameSiteAsWritten(cookie) ==
    LET same_site == GetSameSite(cookie, SameSiteLax)
        mapped ==
            IF same_site \in {Str("unspecified", "lower"), Str("no_restriction", "lower"),
                              PyNone, Str("", "lower")}
            THEN IF cookie.secure THEN SameSiteNone ELSE SameSiteLax
            ELSE same_site
    IN  IF mapped \notin SameSiteEnum THEN SameSiteLax ELSE mapped

\* same_site = cookie.get("sameSite", "Lax"); the values of the list go by the
\* secure flag, every other value is capitalized; a value that is then none of
\* "Strict", "Lax", "None" becomes "Lax".
NormalizeSameSite(cookie) ==
    LET same_site == GetSameSite(cookie, SameSiteLax)
        mapped ==
            IF same_site \in {Str("unspecified", "lower"), Str("no_restriction", "lower"),
                              PyNone, Str("", "lower")}
            THEN IF cookie.secure THEN SameSiteNone ELSE SameSiteLax
            ELSE Capitalize(same_site)
    IN  IF mapped \notin SameSiteEnum THEN SameSiteLax ELSE mapped

\* pw_cookie = {...}: the cookie in the format of the browser driver.
ToPlaywright(cookie) ==
    [name |-> cookie.name, value |-> cookie.value, domain |-> cookie.domain,
     path |-> cookie.path, expires |-> cookie.expirationDate,
     httpOnly |-> cookie.httpOnly, secure |-> cookie.secure,
     sameSite |-> NormalizeSameSite(cookie)]

\* export_cookie = {...}: the cookie in the format of the browser extensions.
ToPortable(cookie) ==
    [domain |-> cookie.domain, expirationDate |-> cookie.expires,
     hostOnly |-> ~(cookie.domain[1] = "."), httpOnly |-> cookie.httpOnly,
     name |-> cookie.name, path |-> cookie.path,
     sameSite |-> Lower(cookie.sameSite), secure |-> cookie.secure,
     session |-> (cookie.expires = -1), storeId |-> "0", value |-> cookie.value]

\* "google.com" in c["domain"] or "admanager" in c["domain"]
IsGoogleCookie(cookie) ==
    Contains(cookie.domain, "google.com") \/ Contains(cookie.domain, "admanager")

\* [c for c in cookies if ...]
RECURSIVE Filter(_)
Filter(cookies) ==
    IF cookies = << >> THEN << >>
    ELSE IF IsGoogleCookie(Head(cookies))
         THEN <<Head(cookies)>> \o Filter(Tail(cookies))
         ELSE Filter(Tail(cookies))

\* The cookies of the session after a login: browser.cookies() in login_only.
SessionCookies ==
    {c \in BrowserCookies : c.name = "SID" /\ c.expires = -1 /\ c.httpOnly /\ c.secure
                              /\ c.sameSite = SameSiteLax}

(***************************************************************************)
(* login_only: after the login, release of the browser                     *)
(***************************************************************************)
\* if result.get("success")
LoginOnlyResult ==
    /\ pc = "lo_result"
    /\ pc' = IF result.success THEN "lo_persist" ELSE "lo_close"
    /\ UNCHANGED <<network, peer, envVars, session, browser, url, result, ret, loginVars, createVars>>

\* await page.wait_for_timeout(8000)
PersistWait ==
    /\ pc = "lo_persist"
    /\ \E ok \in BOOLEAN : pc' = IF ok THEN "lo_export" ELSE LoginOnlyHandler("lo_persist")
    /\ UNCHANGED <<network, peer, envVars, session, browser, url, result, ret, loginVars, createVars>>

\* An export whose failure reaches the except of login_only.
ExportHandlerOuter(at) == LoginOnlyHandler(at)

\* except Exception as e: logger.warning(...): the failure of the export is
\* logged and login_only goes on to close the browser.
ExportHandler(at) == "lo_close"

\* The cookie export after a successful login, in its own try:
\* browser.cookies(), the filter, the conversion, and json.dump into
\* data/cookies_latest.json.
ExportCookies ==
    /\ pc = "lo_export"
    /\ \E ok \in BOOLEAN :
        IF ok
        THEN /\ pc' = "lo_close"
             /\ \E cookies \in Lists(SessionCookies) :
                  files' = {f \in files : f.name # "cookies_latest.json"}
                              \cup {[name |-> "cookies_latest.json",
                                     content |-> [i \in 1..Len(Filter(cookies)) |->
                                                     ToPortable(Filter(cookies)[i])]]}
        ELSE /\ pc' = ExportHandler(pc)
             /\ UNCHANGED files
    /\ UNCHANGED <<network, peer, vlog, service, phase, first, source, converted, store, session,
                   browser, url, result, ret, loginVars, createVars>>

\* await browser.close()
CloseBrowser ==
    /\ pc = "lo_close"
    /\ \E ok \in BOOLEAN :
        /\ pc' = IF ok THEN "lo_stop" ELSE LoginOnlyHandler("lo_close")
        /\ browser' = IF ok THEN "closed" ELSE browser
    /\ UNCHANGED <<network, peer, envVars, session, url, result, ret, loginVars, createVars>>

\* await pw.stop(); return result
StopPlaywright ==
    /\ pc = "lo_stop"
    /\ \E ok \in BOOLEAN :
        IF ok
        THEN pc' = "lo_returned" /\ ret' = result
        ELSE pc' = LoginOnlyHandler("lo_stop") /\ UNCHANGED ret
    /\ UNCHANGED <<network, peer, envVars, session, browser, url, result, loginVars, createVars>>

\* except Exception as e: return the failure
LoginOnlyExcept ==
    /\ pc = "lo_except"
    /\ pc' = "lo_returned"
    /\ ret' = Result(FALSE, MsgDemoError)
    /\ UNCHANGED <<network, peer, envVars, session, browser, url, result, loginVars, createVars>>

Next ==
    \/ StartPlaywright \/ MakeUserDataDir \/ LaunchBrowser \/ NewPage
    \/ RetryLoop \/ RetryCheck \/ RetryWait
    \/ Goto \/ Branch
    \/ EmailWait \/ EmailFill \/ EmailClick
    \/ PasswordWait \/ PasswordFill \/ PasswordClick
    \/ Settle \/ VerifyCall \/ VerifyScreenshot \/ VerifyBranches \/ VerifyReturn \/ Verified
    \/ WaitForUrl \/ FinalCheck \/ NetworkIdle \/ SettleAndReturn \/ LoginExcept
    \/ LoginOnlyResult \/ PersistWait \/ ExportCookies \/ CloseBrowser
    \/ StopPlaywright \/ LoginOnlyExcept

Spec == Init /\ [][Next]_vars

\* One invocation of the verification handler, from its call in an attempt
\* that submitted the email and the password, with its history recorded.
InitVerify ==
    /\ pc = "v_call"
    /\ network \in Networks
    /\ browser = "open"
    /\ url \in AllURLs
    /\ result = Pending
    /\ ret = Pending
    /\ attempt = 0
    /\ current_url = NoURL
    /\ verification_result = Pending
    /\ logins = 1
    /\ waits = << >>
    /\ steps = <<"email_fill", "email_submit", "password_fill", "password_submit">>
    /\ landed \in IdpURLs
    /\ raised = FALSE
    /\ shots = {}
    /\ CreateIdle
    /\ service = "any"
    /\ session = FALSE
    /\ phase = 0
    /\ first = Pending
    /\ source = << >>
    /\ converted = << >>
    /\ store = << >>
    /\ files = {}
    /\ vlog = << >>
    /\ peer = NoPeer

NextVerify == VerifyCall \/ VerifyScreenshot \/ VerifyBranches \/ VerifyReturn

SpecVerify == InitVerify /\ [][NextVerify]_vars

(***************************************************************************)
(* Properties of the login                                                 *)
(***************************************************************************)
IsPrefix(s, t) == Len(s) <= Len(t) /\ \A i \in 1..Len(s) : s[i] = t[i]

AuthSequence == <<"email_fill", "email_submit", "password_fill", "password_submit", "verify">>

IsResult(r) == DOMAIN r = {"data", "success", "message"} /\ r.success \in BOOLEAN

\* C1: _login_with_retry never calls _login more than 5 times; every call after
\* the first is preceded by one more 10-second wait, there are at most 4 waits;
\* and when it returns a failure (every attempt returned a failure) it has
\* made exactly 5 calls and exactly 4 waits and the result has success=false.
C1_RetryCap ==
    /\ logins <= 5
    /\ Len(waits) <= 4
    /\ \A i \in 1..Len(waits) : waits[i] = 10000
    /\ pc = "l_goto" => Len(waits) = logins - 1
    /\ (pc = "lo_result" /\ ~result.success) =>
          /\ logins = 5
          /\ Len(waits) = 4
          /\ result = Result(FALSE, MsgExhausted)

\* C1 witness: the loop was exhausted and returned the failure.
C1_Witness == pc = "lo_result" /\ result.message = MsgExhausted /\ logins = 5

\* C2: login_only ends only by returning: wherever the coroutine can take no
\* further step it has returned a value of the shape {success, message, data},
\* and that value has success=true only if the login returned success.
C2_NoEscape ==
    /\ ~ENABLED Next => pc = "lo_returned"
    /\ pc = "lo_returned" =>
          /\ IsResult(ret)
          /\ ret.success => (result = Result(TRUE, MsgLoginOk) /\ ret = result)

\* C2 witness: a primitive raised after the page was created (the failure
\* screenshot of _login) and login_only returned the failure value.
C2_Witness ==
    /\ pc = "lo_returned"
    /\ ret = Result(FALSE, MsgDemoError)
    /\ raised
    /\ logins >= 1

\* C3: once launched, the browser is closed when login_only returns.
C3_ClosedOnReturn == pc = "lo_returned" => browser # "open"

\* C4: in an attempt whose navigation landed on the identity provider's domain,
\* the steps performed so far are an initial part of email fill, email submit,
\* password fill, password submit, verification handler: that order, each at
\* most once, none without the ones before it.
C4_StepOrder == Host(landed) = IDP => IsPrefix(steps, AuthSequence)

\* C4 witness: an attempt that landed on the identity provider and reached the
\* verification handler.
C4_Witness == Host(landed) = IDP /\ steps = AuthSequence

\* C5: in an attempt whose navigation landed on the console's domain with the
\* tenant identifier in the URL, no email step, password step or verification
\* handler is executed, and the attempt, when it returns without a driver
\* primitive having raised, returns success.
C5_ShortCircuit ==
    (Host(landed) = CONSOLE /\ Contains(landed, network)) =>
        /\ steps = << >>
        /\ (pc = "r_check" /\ ~raised) => result = Result(TRUE, MsgLoginOk)

\* C5 witness: such an attempt has returned success.
C5_Witness ==
    /\ Host(landed) = CONSOLE
    /\ Contains(landed, network)
    /\ pc = "r_check"
    /\ result.success
    /\ steps = << >>

\* C6: an attempt returns success only if the URL of the final check is on the
\* console's domain and contains the tenant identifier.
C6_SuccessOnConsole ==
    (pc = "r_check" /\ result.success) =>
        (Host(current_url) = CONSOLE /\ Contains(current_url, network))

(***************************************************************************)
(* create_url: constants, inputs and results                               *)
(***************************************************************************)
max_attempts == 3

Absent == "<absent>"

\* _set_inventory_type: valid_types
valid_inventory_types == {"Display", "Video in-stream"}

\* _set_brand_type: valid_types
valid_brand_types == {"Com marca", "semitransparente"}

\* url_data: a URL or the empty string; each type given, legal or not, or left out.
DataInputs ==
    [url : {"", "example.com"},
     inventory_type : valid_inventory_types \cup {"Video", Absent},
     brand_type : valid_brand_types \cup {"Branded", Absent}]

\* data.get(key, default)
Get(d, key, default) == IF d[key] = Absent THEN default ELSE d[key]

ResultWith(ok, msg, d) == [data |-> d, success |-> ok, message |-> msg]

MsgSessionExpired ==
    "Session expired. Please run 'python demo_login.py' or 'python import_cookies.py' first."

MsgNavigationFailed == "Navigation failed. Could not reach URL list page for network"

MsgClickFailed == "Failed to click new URL button"

MsgConfigureFailed == "Failed to configure URL"

MsgCreateFailed == "Failed to create URL"

MsgCreateError == "Error creating URL"

MsgClicked == "New URL button clicked successfully"

MsgCreated == "URL created and saved successfully"

ErrEmptyURL == "ValueError: URL cannot be empty"

ErrInventory == "ValueError: Invalid inventory type"

ErrBrand == "ValueError: Invalid brand type"

ErrDriver == "driver error"

ValidationErrors == {ErrEmptyURL, ErrInventory, ErrBrand}

InitCreate ==
    /\ pc = "c_start"
    /\ network \in Networks
    /\ browser = "none"
    /\ url = NoURL
    /\ result = Pending
    /\ ret = Pending
    /\ LoginIdle
    /\ EnvIdle
    /\ data \in DataInputs
    /\ op = "none"
    /\ stage = 0
    /\ sattempt = 0
    /\ strat = 0
    /\ tried = << >>
    /\ tries = 0
    /\ present = << >>
    /\ acted = FALSE
    /\ won = 0
    /\ ui = << >>
    /\ error = "none"

\* The interactions performed, in order, an interaction repeated at once
\* recorded one time.
Record(log, e) == IF log # << >> /\ log[Len(log)] = e THEN log ELSE Append(log, e)

(***************************************************************************)
(* create_url: acquisition and release of the browser                      *)
(***************************************************************************)
\* Where an exception raised in the body of create_url is caught.
CreateUrlHandler(at) == "c_except"

\* pw = await async_playwright().start()
CuStartPlaywright ==
    /\ pc = "c_start"
    /\ \E ok \in BOOLEAN : pc' = IF ok THEN "c_mkdir" ELSE CreateUrlHandler("c_start")
    /\ UNCHANGED <<network, peer, envVars, session, browser, url, result, ret, loginVars, createVars>>

\* user_data_dir.mkdir(exist_ok=True, parents=True)
CuMakeUserDataDir ==
    /\ pc = "c_mkdir"
    /\ \E ok \in BOOLEAN : pc' = IF ok THEN "c_launch" ELSE CreateUrlHandler("c_mkdir")
    /\ UNCHANGED <<network, peer, envVars, session, browser, url, result, ret, loginVars, createVars>>

\* browser = await pw.chromium.launch_persistent_context(...)
CuLaunchBrowser ==
    /\ pc = "c_launch"
    /\ \E ok \in BOOLEAN :
        /\ pc' = IF ok THEN "c_newpage" ELSE CreateUrlHandler("c_launch")
        /\ browser' = IF ok THEN "open" ELSE browser
    /\ UNCHANGED <<network, peer, envVars, session, url, result, ret, loginVars, createVars>>

\* page = await browser.new_page(); then the call of _create_url_safe
CuNewPage ==
    /\ pc = "c_newpage"
    /\ \E ok \in BOOLEAN :
        /\ pc' = IF ok THEN "s_dialogs" ELSE CreateUrlHandler("c_newpage")
        /\ url' = IF ok THEN BlankURL ELSE url
    /\ UNCHANGED <<network, peer, envVars, session, browser, result, ret, loginVars, createVars>>

\* await browser.close()
CuCloseBrowser ==
    /\ pc = "c_close"
    /\ \E ok \in BOOLEAN :
        /\ pc' = IF ok THEN "c_stop" ELSE CreateUrlHandler("c_close")
        /\ browser' = IF ok THEN "closed" ELSE browser
    /\ UNCHANGED <<network, peer, envVars, session, url, result, ret, loginVars, createVars>>

\* await pw.stop(); return result
CuStopPlaywright ==
    /\ pc = "c_stop"
    /\ \E ok \in BOOLEAN :
        IF ok
        THEN pc' = "c_returned" /\ ret' = result
        ELSE pc' = CreateUrlHandler("c_stop") /\ UNCHANGED ret
    /\ UNCHANGED <<network, peer, envVars, session, browser, url, result, loginVars, createVars>>

\* except Exception as e: return the failure
CuExcept ==
    /\ pc = "c_except"
    /\ pc' = "c_returned"
    /\ ret' = Result(FALSE, MsgCreateError)
    /\ UNCHANGED <<network, peer, envVars, session, browser, url, result, loginVars, createVars>>

(***************************************************************************)
(* _create_url_safe                                                        *)
(***************************************************************************)
\* A check that never recognises the identity provider.
SessionExpiredNever(u) == FALSE

\* if "accounts.google.com" in current_url
SessionExpired(u) == Contains(u, IDP)

\* An overlay dialog can only show on a page of the console.
DialogMayShow(u) == IF Host(u) = CONSOLE THEN BOOLEAN ELSE {FALSE}

\* await self._close_dialogs(page): the click when the dialog is visible; every
\* exception is swallowed.
CloseDialogs ==
    /\ pc = "s_dialogs"
    /\ pc' = "s_dialogs2"
    /\ \E visible \in DialogMayShow(url) :
        ui' = IF visible THEN Record(ui, "click:dialog_close") ELSE ui
    /\ UNCHANGED <<network, peer, envVars, session, browser, url, result, ret, loginVars, data, op, stage,
                   sattempt, strat, tried, tries, present, acted, won, error>>

\* await self._close_dialogs_reverify(page)
CloseDialogsReverify ==
    /\ pc = "s_dialogs2"
    /\ pc' = "s_goto"
    /\ \E visible \in DialogMayShow(url) :
        ui' = IF visible THEN Record(ui, "click:dialog_close") ELSE ui
    /\ UNCHANGED <<network, peer, envVars, session, browser, url, result, ret, loginVars, data, op, stage,
                   sattempt, strat, tried, tries, present, acted, won, error>>

\* await page.goto(url, timeout=60000)
CuGoto ==
    /\ pc = "s_goto"
    /\ ui' = Record(ui, "goto")
    /\ \E ok \in BOOLEAN :
        IF ok
        THEN /\ url' \in AllURLs
             /\ landed' = url'
             /\ pc' = "s_check"
             /\ UNCHANGED error
        ELSE /\ pc' = "s_except"
             /\ error' = ErrDriver
             /\ UNCHANGED <<url, landed>>
    /\ UNCHANGED <<network, peer, envVars, session, browser, result, ret, attempt, current_url, verification_result,
                   logins, waits, steps, raised, shots, data, op, stage, sattempt,
                   strat, tried, tries, present, acted, won>>

\* current_url = page.url; the session-expired and the network checks
CheckLanding ==
    /\ pc = "s_check"
    /\ current_url' = url
    /\ IF SessionExpired(url)
       THEN pc' = "c_close" /\ result' = Result(FALSE, MsgSessionExpired)
       ELSE IF ~Contains(url, network)
            THEN pc' = "c_close" /\ result' = Result(FALSE, MsgNavigationFailed)
            ELSE pc' = "s_wait10" /\ UNCHANGED result
    /\ UNCHANGED <<network, peer, envVars, session, browser, url, ret, attempt, verification_result,
                   logins, waits, steps, landed, raised, shots, createVars>>

\* await page.wait_for_timeout(10000); then _click_new_url_button_safe
WaitPageLoad ==
    /\ pc = "s_wait10"
    /\ \E ok \in BOOLEAN :
        IF ok
        THEN pc' = "o_begin" /\ op' = "new_url_button" /\ UNCHANGED error
        ELSE pc' = "s_except" /\ error' = ErrDriver /\ UNCHANGED op
    /\ UNCHANGED <<network, peer, envVars, session, browser, url, result, ret, loginVars, data, stage,
                   sattempt, strat, tried, tries, present, acted, won, ui>>

\* await page.wait_for_timeout(5000); then _configure_url_safe
WaitFormOpen ==
    /\ pc = "s_wait5"
    /\ \E ok \in BOOLEAN :
        IF ok
        THEN pc' = "o_begin" /\ op' = "url_input" /\ UNCHANGED error
        ELSE pc' = "s_except" /\ error' = ErrDriver /\ UNCHANGED op
    /\ UNCHANGED <<network, peer, envVars, session, browser, url, result, ret, loginVars, data, stage,
                   sattempt, strat, tried, tries, present, acted, won, ui>>

\* except Exception as e: the screenshot in its own try, and the failure
CreateExcept ==
    /\ pc = "s_except"
    /\ pc' = "c_close"
    /\ result' = Result(FALSE, MsgCreateFailed)
    /\ \E ok \in BOOLEAN :
        shots' = IF ok THEN shots \cup {"error_url.png"} ELSE shots
    /\ UNCHANGED <<network, peer, envVars, session, browser, url, ret, attempt, current_url, verification_result,
                   logins, waits, steps, landed, raised, createVars>>

(***************************************************************************)
(* The selector-resolution operations of create_url                        *)
(*                                                                         *)
(* A strategy is one try block.  A "locator" strategy waits for the        *)
(* element to be visible, interacts with it and waits a settle delay.  A   *)
(* "script" strategy evaluates a script that clicks the element if it      *)
(* finds one and reports nothing.  A "script_checked" strategy evaluates a *)
(* script that reports whether it clicked, and raises when it did not.     *)
(***************************************************************************)
Operations == {"new_url_button", "url_input", "inventory_type", "brand_type", "save_button"}

\* create_url_button: strategies 1 to 4
create_url_button_strategies == <<"locator", "locator", "locator", "script">>

\* _set_url_field: strategies 1 to 4
set_url_field_strategies == <<"locator", "locator", "locator", "locator">>

\* _set_inventory_type: the dropdown (stage 1), then the option (stage 2)
set_inventory_type_strategies(st) ==
    IF st = 1
    THEN <<"locator", "locator", "script_checked">>
    ELSE <<"locator", "script_checked">>

\* _set_brand_type: strategies 1 to 3
set_brand_type_strategies == <<"locator", "locator", "script">>

\* _save_url: strategies 1 to 3
save_url_strategies == <<"locator", "locator", "script">>

Strategies(o, st) ==
    CASE o = "new_url_button" -> create_url_button_strategies
      [] o = "url_input" -> set_url_field_strategies
      [] o = "inventory_type" -> set_inventory_type_strategies(st)
      [] o = "brand_type" -> set_brand_type_strategies
      [] o = "save_button" -> save_url_strategies

NumStages(o) == IF o = "inventory_type" THEN 2 ELSE 1

\* The interaction a strategy of the operation performs on its control.
Interaction(o, st) ==
    CASE o = "new_url_button" -> "click:new_url"
      [] o = "url_input" -> "fill:url"
      [] o = "inventory_type" ->
            IF st = 1 THEN "click:inventory_dropdown" ELSE "click:inventory_option"
      [] o = "brand_type" -> "click:brand"
      [] o = "save_button" -> "click:save"

\* The exception raised when the strategies are exhausted.
CouldNotFind(o, st) ==
    CASE o = "new_url_button" -> "Could not find 'Novo URL' button after 3 attempts"
      [] o = "url_input" -> "Could not find URL input field after 3 attempts"
      [] o = "inventory_type" ->
            IF st = 1
            THEN "Could not find dropdown button"
            ELSE "Could not find option in dropdown"
      [] o = "brand_type" -> "Could not find brand type option after 3 attempts"
      [] o = "save_button" -> "Could not find 'Salvar' button after 3 attempts"

\* The checks at the head of the operation, before its loop.
Validation(o, d) ==
    CASE o = "url_input" ->
            IF Get(d, "url", "") = "" THEN ErrEmptyURL ELSE "ok"
      [] o = "inventory_type" ->
            IF Get(d, "inventory_type", "Display") \notin valid_inventory_types
            THEN ErrInventory
            ELSE "ok"
      [] o = "brand_type" ->
            IF Get(d, "brand_type", "Com marca") \notin valid_brand_types
            THEN ErrBrand
            ELSE "ok"
      [] OTHER -> "ok"

\* Whether the try block of a strategy can run to its end: a locator strategy
\* and a checked script only after they interacted with the element; the
\* unchecked script also when it found no element.
MayComplete(kind, interacted) ==
    IF kind = "script" \/ interacted THEN BOOLEAN ELSE {FALSE}

\* A try block that goes on to the next strategy where _set_url_field returns.
OnSuccessFallsThrough(o, st) ==
    CASE o = "save_button" -> "o_post_save"
      [] o = "inventory_type" -> "o_settle"
      [] o = "url_input" -> "o_strategy"
      [] OTHER -> "o_done"

\* What ends a strategy's try block: return, break (_save_url), or the
\* statements that follow the nested try (_set_inventory_type).
OnSuccess(o, st) ==
    CASE o = "save_button" -> "o_post_save"
      [] o = "inventory_type" -> "o_settle"
      [] OTHER -> "o_done"

\* The head of an operation: its validation, then the first try of its list.
BeginOp ==
    /\ pc = "o_begin"
    /\ IF Validation(op, data) # "ok"
       THEN /\ pc' = "o_raise"
            /\ error' = Validation(op, data)
            /\ tried' = << >>
            /\ tries' = 0
            /\ acted' = FALSE
            /\ won' = 0
            /\ UNCHANGED <<stage, sattempt, strat, present>>
       ELSE /\ pc' = "o_strategy"
            /\ stage' = 1
            /\ sattempt' = 0
            /\ strat' = 1
            /\ tried' = << >>
            /\ tries' = 1
            /\ present' \in [1..NumStages(op) -> BOOLEAN]
            /\ acted' = FALSE
            /\ won' = 0
            /\ UNCHANGED error
    /\ UNCHANGED <<network, peer, envVars, session, browser, url, result, ret, loginVars, data, op, ui>>

\* One strategy: its try block and the except that follows.
TryStrategy ==
    /\ pc = "o_strategy"
    /\ strat <= Len(Strategies(op, stage))
    /\ tried' = Append(tried, strat)
    /\ strat' = strat + 1
    /\ \E interacted \in (IF present[stage] THEN BOOLEAN ELSE {FALSE}) :
       \E completes \in MayComplete(Strategies(op, stage)[strat], interacted) :
        /\ ui' = IF interacted THEN Record(ui, Interaction(op, stage)) ELSE ui
        /\ acted' = (acted \/ interacted)
        /\ IF completes
           THEN /\ won' = strat
                /\ pc' = OnSuccess(op, stage)
                /\ UNCHANGED error
           ELSE /\ UNCHANGED won
                /\ pc' = IF strat < Len(Strategies(op, stage)) THEN "o_strategy" ELSE "o_failed"
                /\ IF op = "inventory_type" /\ strat = Len(Strategies(op, stage))
                   THEN error' \in (IF interacted
                                    THEN {ErrDriver}
                                    ELSE {ErrDriver, CouldNotFind(op, stage)})
                   ELSE UNCHANGED error
    /\ UNCHANGED <<network, peer, envVars, session, browser, url, result, ret, loginVars, data, op, stage,
                   sattempt, tries, present>>

\* if attempt < max_attempts - 1
MoreTries(a) == a < max_attempts - 1

\* Every strategy of the list failed.  create_url_button, _set_url_field,
\* _set_brand_type, _save_url: wait and continue (a raising wait is caught by
\* the except of the loop, which continues too), or raise the could-not-find
\* exception.  _set_inventory_type: the except of the loop waits and continues,
\* or re-raises.
AllFailed ==
    /\ pc = "o_failed"
    /\ IF MoreTries(sattempt)
       THEN \E ok \in BOOLEAN :
              IF ok \/ op # "inventory_type"
              THEN /\ pc' = "o_strategy"
                   /\ sattempt' = sattempt + 1
                   /\ stage' = 1
                   /\ strat' = 1
                   /\ tried' = << >>
                   /\ tries' = tries + 1
                   /\ won' = 0
                   /\ UNCHANGED error
              ELSE /\ pc' = "o_raise"
                   /\ error' = ErrDriver
                   /\ UNCHANGED <<sattempt, stage, strat, tried, tries, won>>
       ELSE /\ pc' = "o_raise"
            /\ error' = IF op = "inventory_type" THEN error ELSE CouldNotFind(op, stage)
            /\ UNCHANGED <<sattempt, stage, strat, tried, tries, won>>
    /\ UNCHANGED <<network, peer, envVars, session, browser, url, result, ret, loginVars, data, op,
                   present, acted, ui>>

\* _set_inventory_type: await page.wait_for_timeout(1500) after the dropdown,
\* await page.wait_for_timeout(1000) and return after the option.
InventorySettle ==
    /\ pc = "o_settle"
    /\ \E ok \in BOOLEAN :
        IF ~ok
        THEN /\ pc' = "o_failed"
             /\ error' = ErrDriver
             /\ UNCHANGED <<stage, strat, tried, won>>
        ELSE IF stage = 1
             THEN /\ pc' = "o_strategy"
                  /\ stage' = 2
                  /\ strat' = 1
                  /\ tried' = << >>
                  /\ won' = 0
                  /\ UNCHANGED error
             ELSE /\ pc' = "o_done"
                  /\ UNCHANGED <<stage, strat, tried, won, error>>
    /\ UNCHANGED <<network, peer, envVars, session, browser, url, result, ret, loginVars, data, op,
                   sattempt, tries, present, acted, ui>>

\* _save_url after the loop: await page.wait_for_timeout(3000), then the
\* dismissal of a success dialog, in its own try.
SaveSettle ==
    /\ pc = "o_post_save"
    /\ \E ok \in BOOLEAN :
        IF ok
        THEN /\ pc' = "o_done"
             /\ \E visible \in DialogMayShow(url) :
                  ui' = IF visible THEN Record(ui, "click:dialog_close") ELSE ui
             /\ UNCHANGED error
        ELSE /\ pc' = "o_raise"
             /\ error' = ErrDriver
             /\ UNCHANGED ui
    /\ UNCHANGED <<network, peer, envVars, session, browser, url, result, ret, loginVars, data, op, stage,
                   sattempt, strat, tried, tries, present, acted, won>>

\* The operation returned: _click_new_url_button_safe returns its success and
\* _create_url_safe goes on; configure_url goes on to its next operation;
\* after _save_url, _configure_url_safe returns the success with the echo.
OpReturn ==
    /\ pc = "o_done"
    /\ CASE op = "new_url_button" ->
              pc' = "s_wait5" /\ result' = Result(TRUE, MsgClicked) /\ UNCHANGED op
         [] op = "url_input" ->
              pc' = "o_begin" /\ op' = "inventory_type" /\ UNCHANGED result
         [] op = "inventory_type" ->
              pc' = "o_begin" /\ op' = "brand_type" /\ UNCHANGED result
         [] op = "brand_type" ->
              pc' = "o_begin" /\ op' = "save_button" /\ UNCHANGED result
         [] op = "save_button" ->
              /\ pc' = "c_close"
              /\ result' = ResultWith(TRUE, MsgCreated,
                                      [url |-> Get(data, "url", ""),
                                       inventory_type |-> Get(data, "inventory_type", ""),
                                       brand_type |-> Get(data, "brand_type", "")])
              /\ UNCHANGED op
    /\ UNCHANGED <<network, peer, envVars, session, browser, url, ret, loginVars, data, stage, sattempt,
                   strat, tried, tries, present, acted, won, ui, error>>

\* An operation whose failure is skipped: the flow goes on to the next step.
OpRaiseContinues ==
    /\ pc = "o_raise"
    /\ IF op = "save_button"
       THEN pc' = "c_close" /\ result' = Result(FALSE, MsgConfigureFailed) /\ UNCHANGED op
       ELSE /\ pc' = "o_begin"
            /\ op' = CASE op = "new_url_button" -> "url_input"
                        [] op = "url_input" -> "inventory_type"
                        [] op = "inventory_type" -> "brand_type"
                        [] OTHER -> "save_button"
            /\ UNCHANGED result
    /\ UNCHANGED <<network, peer, envVars, session, browser, url, ret, loginVars, data, stage, sattempt,
                   strat, tried, tries, present, acted, won, ui, error>>

\* The operation raised: the except of _click_new_url_button_safe or of
\* _configure_url_safe (through configure_url, which re-raises) returns the
\* failure, and _create_url_safe returns it.
OpRaise ==
    /\ pc = "o_raise"
    /\ pc' = "c_close"
    /\ result' = IF op = "new_url_button"
                 THEN Result(FALSE, MsgClickFailed)
                 ELSE Result(FALSE, MsgConfigureFailed)
    /\ UNCHANGED <<network, peer, envVars, session, browser, url, ret, loginVars, createVars>>

NextCreate ==
    \/ CuStartPlaywright \/ CuMakeUserDataDir \/ CuLaunchBrowser \/ CuNewPage
    \/ CloseDialogs \/ CloseDialogsReverify \/ CuGoto \/ CheckLanding
    \/ WaitPageLoad \/ WaitFormOpen \/ CreateExcept
    \/ BeginOp \/ TryStrategy \/ AllFailed \/ InventorySettle \/ SaveSettle
    \/ OpReturn \/ OpRaise
    \/ CuCloseBrowser \/ CuStopPlaywright \/ CuExcept

SpecCreate == InitCreate /\ [][NextCreate]_vars

(***************************************************************************)
(* Properties of create_url                                                *)
(***************************************************************************)
\* C7: when the navigation of create_url ends on the identity provider's
\* domain, _create_url_safe returns success=false with the session-expired
\* message, which no other path produces, the value create_url returns has
\* success=false, and no UI step follows the navigation: no operation on a
\* control is begun and nothing is clicked or filled.
C7_SessionExpired ==
    /\ (pc # "s_goto" /\ Host(landed) = IDP) =>
          /\ ui = <<"goto">>
          /\ op = "none"
          /\ pc \in {"s_check", "c_close", "c_stop", "c_except", "c_returned"}
          /\ pc # "s_check" => result = Result(FALSE, MsgSessionExpired)
          /\ pc = "c_returned" => ~ret.success
    /\ (IsResult(result) /\ result.message = MsgSessionExpired) => Host(landed) = IDP

\* C7 witness: create_url returned the session-expired failure.
C7_Witness ==
    /\ pc = "c_returned"
    /\ Host(landed) = IDP
    /\ ret = Result(FALSE, MsgSessionExpired)

\* C8: when a validation error is raised, no navigation, click or fill has been
\* performed.
C8_ValidateFirst == error \in ValidationErrors => ui = << >>

\* C9: in create_url_button, _set_url_field, _set_brand_type and _save_url the
\* strategies of one try of the list are invoked in the order 1, 2, 3, 4, and
\* once a strategy has completed none is invoked after it: the strategies
\* invoked are exactly those up to the one that completed, and the operation
\* neither tries the list again nor raises could-not-find.
C9_FirstSuccessWins ==
    op \in {"new_url_button", "url_input", "brand_type", "save_button"} =>
        /\ IsPrefix(tried, <<1, 2, 3, 4>>)
        /\ won # 0 =>
              /\ Len(tried) = won
              /\ pc \notin {"o_strategy", "o_failed"}
              /\ op # "save_button" => pc # "o_raise"

\* C9 witness: strategies 1 and 2 of _set_url_field failed, strategy 3
\* completed, the operation returned and strategy 4 was not invoked.
C9_Witness ==
    /\ op = "url_input"
    /\ pc = "o_done"
    /\ won = 3
    /\ tried = <<1, 2, 3>>
    /\ acted

\* C10: an operation whose control is absent from the page never returns
\* normally, and raises its could-not-find failure after exactly 3 tries of
\* its strategy list.
C10_AbsentRaises ==
    (op \in Operations /\ tries >= 1 /\ \A st \in DOMAIN present : ~present[st]) =>
        /\ pc # "o_done"
        /\ (pc = "o_raise" /\ error # ErrDriver) =>
              (tries = 3 /\ error = CouldNotFind(op, stage))

\* The value a coroutine that returns a bool returned.
Returned(b) == [returned |-> b]

\* The login variables the other operations leave alone.
loginRest == <<attempt, verification_result, logins, waits, steps, landed, raised>>

(***************************************************************************)
(* import_cookies_to_profile: no statement of it is inside a try           *)
(***************************************************************************)
ImportNext(at) ==
    CASE at = "i_mkdir" -> "i_start"
      [] at = "i_start" -> "i_launch"
      [] at = "i_launch" -> "i_add"
      [] at = "i_newpage" -> "i_goto"
      [] at = "i_wait" -> "i_verdict"
      [] at = "i_close" -> "i_stop"
      [] at = "i_stop" -> "i_returned"
      [] OTHER -> "escaped"

\* if not cookies_file.exists(): return False
ImportExists ==
    /\ pc = "i_exists"
    /\ \E exists \in BOOLEAN :
        IF exists
        THEN pc' = "i_read" /\ UNCHANGED ret
        ELSE pc' = "i_returned" /\ ret' = Returned(FALSE)
    /\ UNCHANGED <<network, peer, envVars, session, browser, url, result, loginVars, createVars>>

\* cookies = json.load(f)
ImportRead ==
    /\ pc = "i_read"
    /\ \E ok \in BOOLEAN :
        IF ok
        THEN pc' = "i_convert" /\ source' \in Lists(PortableCookies)
        ELSE pc' = "escaped" /\ UNCHANGED source
    /\ UNCHANGED <<network, peer, vlog, service, phase, first, converted, store, files, session,
                   browser, url, result, ret, loginVars, createVars>>

\* for cookie in cookies: ...; playwright_cookies.append(pw_cookie)
ImportConvert ==
    /\ pc = "i_convert"
    /\ converted' = [i \in 1..Len(source) |-> ToPlaywright(source[i])]
    /\ pc' = "i_mkdir"
    /\ UNCHANGED <<network, peer, vlog, service, phase, first, source, store, files, session,
                   browser, url, result, ret, loginVars, createVars>>

\* user_data_dir.mkdir, async_playwright().start(), launch_persistent_context,
\* browser.new_page(), page.wait_for_timeout(5000), browser.close(), pw.stop()
\* and the return of success: a primitive that raises ends the coroutine.
ImportPrimitive ==
    /\ pc \in {"i_mkdir", "i_start", "i_launch", "i_newpage", "i_wait", "i_close", "i_stop"}
    /\ \E ok \in BOOLEAN :
        IF ok
        THEN /\ pc' = ImportNext(pc)
             /\ browser' = IF pc = "i_launch" THEN "open"
                           ELSE IF pc = "i_close" THEN "closed" ELSE browser
             /\ ret' = IF pc = "i_stop" THEN result ELSE ret
        ELSE /\ pc' = "escaped"
             /\ UNCHANGED <<browser, ret>>
    /\ UNCHANGED <<network, peer, envVars, session, url, result, loginVars, createVars>>

\* await browser.add_cookies(playwright_cookies)
ImportAddCookies ==
    /\ pc = "i_add"
    /\ \E ok \in BOOLEAN :
        IF ok
        THEN pc' = "i_newpage" /\ store' = converted
        ELSE pc' = "escaped" /\ UNCHANGED store
    /\ UNCHANGED <<network, peer, vlog, service, phase, first, source, converted, files, session,
                   browser, url, result, ret, loginVars, createVars>>

\* await page.goto("https://admanager.google.com/23128820367", timeout=60000)
ImportGoto ==
    /\ pc = "i_goto"
    /\ \E ok \in BOOLEAN :
        IF ok
        THEN pc' = "i_wait" /\ url' \in Landing(service, session)
        ELSE pc' = "escaped" /\ UNCHANGED url
    /\ UNCHANGED <<network, peer, envVars, session, browser, result, ret, loginVars, createVars>>

\* A verdict that looks for the console's host only.
ImportSuccessConsoleOnly(u) == Contains(u, CONSOLE)

\* if "admanager.google.com" in final_url and "accounts.google.com" not in final_url
ImportSuccess(u) == Contains(u, CONSOLE) /\ ~Contains(u, IDP)

\* final_url = page.url; the check of the two hosts; the screenshot of the
\* branch taken; success = True or False
ImportVerdict ==
    /\ pc = "i_verdict"
    /\ current_url' = url
    /\ LET success == ImportSuccess(url)
       IN  \E ok \in BOOLEAN :
            IF ok
            THEN /\ pc' = "i_close"
                 /\ shots' = shots \cup {IF success THEN "import_success.png"
                                                    ELSE "import_failed.png"}
                 /\ result' = Returned(success)
            ELSE /\ pc' = "escaped"
                 /\ UNCHANGED <<shots, result>>
    /\ UNCHANGED <<network, peer, envVars, session, browser, url, ret, loginRest, createVars>>

(***************************************************************************)
(* export_cookies_from_profile: no statement of it is inside a try         *)
(***************************************************************************)
ExportNext(at) ==
    CASE at = "e_start" -> "e_launch"
      [] at = "e_launch" -> "e_cookies"
      [] at = "e_close" -> "e_stop"
      [] at = "e_stop" -> "e_convert"
      [] at = "e_backup" -> "e_latest"
      [] at = "e_latest" -> "e_returned"
      [] OTHER -> "escaped"

\* if not user_data_dir.exists(): return False
ExportExists ==
    /\ pc = "e_exists"
    /\ \E exists \in BOOLEAN :
        IF exists
        THEN pc' = "e_start" /\ UNCHANGED ret
        ELSE pc' = "e_returned" /\ ret' = Returned(FALSE)
    /\ UNCHANGED <<network, peer, envVars, session, browser, url, result, loginVars, createVars>>

\* async_playwright().start(), launch_persistent_context, browser.close(), pw.stop()
ExportPrimitive ==
    /\ pc \in {"e_start", "e_launch", "e_close", "e_stop"}
    /\ \E ok \in BOOLEAN :
        IF ok
        THEN /\ pc' = ExportNext(pc)
             /\ browser' = IF pc = "e_launch" THEN "open"
                           ELSE IF pc = "e_close" THEN "closed" ELSE browser
        ELSE /\ pc' = "escaped"
             /\ UNCHANGED browser
    /\ UNCHANGED <<network, peer, envVars, session, url, result, ret, loginVars, createVars>>

\* cookies = await browser.cookies(); google_cookies = [c for c in cookies if ...]
ExportReadCookies ==
    /\ pc = "e_cookies"
    /\ \E ok \in BOOLEAN :
        IF ok
        THEN /\ pc' = "e_close"
             /\ store' \in Lists(BrowserCookies)
             /\ source' = Filter(store')
        ELSE /\ pc' = "escaped"
             /\ UNCHANGED <<store, source>>
    /\ UNCHANGED <<network, peer, vlog, service, phase, first, converted, files, session,
                   browser, url, result, ret, loginVars, createVars>>

\* for cookie in google_cookies: ...; export_cookies.append(export_cookie)
ExportConvert ==
    /\ pc = "e_convert"
    /\ converted' = [i \in 1..Len(source) |-> ToPortable(source[i])]
    /\ pc' = "e_backup"
    /\ UNCHANGED <<network, peer, vlog, service, phase, first, source, store, files, session,
                   browser, url, result, ret, loginVars, createVars>>

\* with open(backup_file, "w") as f: json.dump(export_cookies, f), then the same
\* with latest_file; return True
ExportWrite ==
    /\ pc \in {"e_backup", "e_latest"}
    /\ LET file == IF pc = "e_backup" THEN "cookies_backup_<timestamp>.json"
                                      ELSE "cookies_latest.json"
       IN  \E ok \in BOOLEAN :
            IF ok
            THEN /\ pc' = ExportNext(pc)
                 /\ files' = {f \in files : f.name # file}
                                 \cup {[name |-> file, content |-> converted]}
                 /\ ret' = IF pc = "e_latest" THEN Returned(TRUE) ELSE ret
            ELSE /\ pc' = "escaped"
                 /\ UNCHANGED <<files, ret>>
    /\ UNCHANGED <<network, peer, vlog, service, phase, first, source, converted, store, session,
                   browser, url, result, loginVars, createVars>>

(***************************************************************************)
(* check_logged_in (check_login.py)                                        *)
(***************************************************************************)
CheckNext(at) ==
    CASE at = "k_mkdir" -> "k_start"
      [] at = "k_start" -> "k_launch"
      [] at = "k_launch" -> "k_newpage"
      [] at = "k_newpage" -> "k_goto"
      [] at = "k_wait" -> "k_close"
      [] at = "k_close" -> "k_stop"
      [] at = "k_stop" -> "k_verdict"
      [] OTHER -> "escaped"

\* The try begins once the page exists: what raises before it propagates.
CheckHandler(at) ==
    IF at \in {"k_mkdir", "k_start", "k_launch", "k_newpage"} THEN "escaped" ELSE "k_except"

\* The three tests of the final URL, in the order of the code.
LoggedIn(u, n) ==
    IF Contains(u, IDP) THEN FALSE
    ELSE IF Contains(u, CONSOLE) /\ Contains(u, n) THEN TRUE
    ELSE IF Contains(u, CONSOLE) THEN TRUE
    ELSE FALSE

\* user_data_dir.mkdir, async_playwright().start(), launch_persistent_context and
\* browser.new_page() before the try; page.wait_for_timeout(5000) followed by
\* current_url = page.url, browser.close() and pw.stop() inside it.
CheckPrimitive ==
    /\ pc \in {"k_mkdir", "k_start", "k_launch", "k_newpage", "k_wait", "k_close", "k_stop"}
    /\ \E ok \in BOOLEAN :
        IF ok
        THEN /\ pc' = CheckNext(pc)
             /\ browser' = IF pc = "k_launch" THEN "open"
                           ELSE IF pc = "k_close" THEN "closed" ELSE browser
             /\ current_url' = IF pc = "k_wait" THEN url ELSE current_url
             /\ UNCHANGED raised
        ELSE /\ pc' = CheckHandler(pc)
             /\ raised' = TRUE
             /\ UNCHANGED <<browser, current_url>>
    /\ UNCHANGED <<network, peer, envVars, session, url, result, ret, attempt, verification_result,
                   logins, waits, steps, landed, shots, createVars>>

\* await page.goto(url, timeout=60000, wait_until="domcontentloaded")
CheckGoto ==
    /\ pc = "k_goto"
    /\ \E ok \in BOOLEAN :
        IF ok
        THEN pc' = "k_idle" /\ url' \in Landing(service, session) /\ UNCHANGED raised
        ELSE pc' = "k_except" /\ raised' = TRUE /\ UNCHANGED url
    /\ UNCHANGED <<network, peer, envVars, session, browser, result, ret, attempt, current_url,
                   verification_result, logins, waits, steps, landed, shots, createVars>>

\* await page.wait_for_load_state("networkidle", timeout=15000), in its own try
CheckIdle ==
    /\ pc = "k_idle"
    /\ pc' = "k_wait"
    /\ UNCHANGED <<network, peer, envVars, session, browser, url, result, ret, loginVars, createVars>>

\* The tests of current_url and the return of the verdict.
CheckVerdict ==
    /\ pc = "k_verdict"
    /\ ret' = Returned(LoggedIn(current_url, network))
    /\ pc' = "k_returned"
    /\ UNCHANGED <<network, peer, envVars, session, browser, url, result, loginVars, createVars>>

\* except Exception: await browser.close(); await pw.stop(); return False
CheckExcept ==
    /\ pc \in {"k_except", "k_xstop"}
    /\ \E ok \in BOOLEAN :
        IF ok
        THEN IF pc = "k_except"
             THEN pc' = "k_xstop" /\ browser' = "closed" /\ UNCHANGED ret
             ELSE pc' = "k_returned" /\ ret' = Returned(FALSE) /\ UNCHANGED browser
        ELSE pc' = "escaped" /\ UNCHANGED <<browser, ret>>
    /\ UNCHANGED <<network, peer, envVars, session, url, result, loginVars, createVars>>

(***************************************************************************)
(* The commands other than the login, each run once on its own             *)
(***************************************************************************)
InitPublic ==
    /\ pc \in {"i_exists", "e_exists", "k_mkdir"}
    /\ network \in Networks
    /\ browser = "none"
    /\ url = NoURL
    /\ result = Pending
    /\ ret = Pending
    /\ LoginIdle
    /\ CreateIdle
    /\ EnvIdle

NextImport ==
    \/ ImportExists
    \/ ImportRead
    \/ ImportConvert
    \/ ImportPrimitive
    \/ ImportAddCookies
    \/ ImportGoto
    \/ ImportVerdict

NextExport ==
    \/ ExportExists
    \/ ExportPrimitive
    \/ ExportReadCookies
    \/ ExportConvert
    \/ ExportWrite

NextCheck ==
    \/ CheckPrimitive
    \/ CheckGoto
    \/ CheckIdle
    \/ CheckVerdict
    \/ CheckExcept

NextPublic == NextImport \/ NextExport \/ NextCheck

SpecPublic == InitPublic /\ [][NextPublic]_vars

(***************************************************************************)
(* The commands of one operator on one profile: check-login, then the      *)
(* login, then check-login again when the login returned success.  The     *)
(* remote service shows the console exactly to a profile with a session.   *)
(***************************************************************************)
InitScenario ==
    /\ pc = "k_mkdir"
    /\ network \in Networks
    /\ browser = "none"
    /\ url = NoURL
    /\ result = Pending
    /\ ret = Pending
    /\ LoginIdle
    /\ CreateIdle
    /\ service = "sso"
    /\ session = FALSE
    /\ phase = 1
    /\ first = Pending
    /\ source = << >>
    /\ converted = << >>
    /\ store = << >>
    /\ files = {}
    /\ peer = NoPeer
    /\ vlog = Unrecorded

\* The first check-login has returned: the operator runs the login.
ScenarioLogin ==
    /\ phase = 1
    /\ pc = "k_returned"
    /\ phase' = 2
    /\ first' = ret
    /\ pc' = "lo_start"
    /\ browser' = "none"
    /\ url' = NoURL
    /\ ret' = Pending
    /\ current_url' = NoURL
    /\ raised' = FALSE
    /\ UNCHANGED <<network, peer, vlog, service, source, converted, store, files, session, result,
                   attempt, verification_result, logins, waits, steps, landed, shots,
                   createVars>>

\* The login has returned success: the operator runs check-login again.
ScenarioCheck ==
    /\ phase = 2
    /\ pc = "lo_returned"
    /\ ret.success
    /\ phase' = 3
    /\ pc' = "k_mkdir"
    /\ browser' = "none"
    /\ url' = NoURL
    /\ ret' = Pending
    /\ current_url' = NoURL
    /\ raised' = FALSE
    /\ UNCHANGED <<network, peer, vlog, service, first, source, converted, store, files, session,
                   result, attempt, verification_result, logins, waits, steps, landed,
                   shots, createVars>>

NextScenario == NextCheck \/ ScenarioLogin \/ Next \/ ScenarioCheck

SpecScenario == InitScenario /\ [][NextScenario]_vars

(***************************************************************************)
(* Two operations started at the same time                                 *)
(*                                                                         *)
(* check_logged_in runs as above while a login_only runs beside it.  The   *)
(* login is followed in what it does with its browser: the positions at    *)
(* which it acquires, holds and releases the persistent context.           *)
(***************************************************************************)
\* A profile directory of its own for every operation.
UserDataDirPerOperation(operation) == operation

\* user_data_dir = Path.cwd() / "data" / "demo-user-data"
UserDataDir(operation) == "data/demo-user-data"

\* login_only: start, mkdir, launch_persistent_context, new_page, the login
\* with its export, browser.close(), pw.stop(), return.
PeerNext(at) ==
    CASE at = "start" -> "mkdir"
      [] at = "mkdir" -> "launch"
      [] at = "launch" -> "newpage"
      [] at = "newpage" -> "login"
      [] at = "login" -> "close"
      [] at = "close" -> "stop"
      [] OTHER -> "returned"

\* One step of the login beside; an exception of a step is caught by the
\* except of login_only, which returns.  No step looks at the directory or
\* at another process before it launches.
PeerStep ==
    /\ peer.pc \in {"start", "mkdir", "launch", "newpage", "login", "close", "stop"}
    /\ \E ok \in BOOLEAN :
        peer' = IF ok
                THEN [peer EXCEPT
                        !.pc = PeerNext(peer.pc),
                        !.browser = IF peer.pc = "launch" THEN "open"
                                    ELSE IF peer.pc = "close" THEN "closed" ELSE @,
                        !.dir = IF peer.pc = "launch" THEN UserDataDir(peer.op) ELSE @]
                ELSE [peer EXCEPT !.pc = "returned"]
    /\ UNCHANGED <<pc, network, browser, url, result, ret, loginVars, createVars, envVars, session>>

InitShared ==
    /\ pc = "k_mkdir"
    /\ network \in Networks
    /\ browser = "none"
    /\ url = NoURL
    /\ result = Pending
    /\ ret = Pending
    /\ LoginIdle
    /\ CreateIdle
    /\ service = "any"
    /\ session = FALSE
    /\ phase = 0
    /\ first = Pending
    /\ source = << >>
    /\ converted = << >>
    /\ store = << >>
    /\ files = {}
    /\ vlog = Unrecorded
    /\ peer = [op |-> "login_only", pc |-> "start", browser |-> "none", dir |-> "none"]

NextShared == NextCheck \/ PeerStep

SpecShared == InitShared /\ [][NextShared]_vars

\* C14: on a profile without a session the first check-login returns
\* not-logged-in, and once the login has returned success a check-login in
\* which no primitive raises returns logged-in.
C14_CheckAfterLogin ==
    /\ (phase = 1 /\ pc = "k_returned") => ~ret.returned
    /\ (phase = 3 /\ pc = "k_returned" /\ ~raised) => ret.returned

(***************************************************************************)
(* Properties of the cookie conversions                                    *)
(***************************************************************************)
\* The cookie is in the format of the browser extensions.
IsPortable(cookie) == "expirationDate" \in DOMAIN cookie

\* The source values the normalization is specified for, in any letter case.
SpecifiedSameSite(t) ==
    \/ t = PyNone
    \/ /\ t.form \in Forms
       /\ t.word \in {"unspecified", "no_restriction", "", "lax", "strict", "none"}

\* The source values that name no policy.
Ambiguous(t) ==
    \/ t = PyNone
    \/ t.form \in Forms /\ t.word \in {"unspecified", "no_restriction", ""}

FlipSecure(cookie) == [cookie EXCEPT !.secure = ~@]

\* C11: the import turns every specified sameSite value, in any letter case
\* and with either secure flag, into one of Strict, Lax, None, and the secure
\* flag changes the outcome only for a value that names no policy.
C11_NormalizationTotal ==
    \A i \in 1..Len(converted) :
        (IsPortable(source[i]) /\ SpecifiedSameSite(source[i].sameSite)) =>
            /\ converted[i].sameSite \in SameSiteEnum
            /\ (converted[i].sameSite # NormalizeSameSite(FlipSecure(source[i]))
                    => Ambiguous(source[i].sameSite))

\* An upper-case value of the cookies file has been imported.
C11_Witness ==
    /\ pc = "i_mkdir"
    /\ \E i \in 1..Len(converted) :
        /\ source[i].sameSite = Str("strict", "upper")
        /\ converted[i].sameSite = SameSiteStrict

\* C12: a cookie whose sameSite key is missing, or whose value is none of lax,
\* strict, none, is imported with None when it is secure and with Lax when not.
C12_DefaultBySecure ==
    \A i \in 1..Len(converted) :
        (/\ IsPortable(source[i])
         /\ \/ source[i].sameSite \in {Missing, PyNone}
            \/ source[i].sameSite.word \notin {"lax", "strict", "none"}) =>
            converted[i].sameSite = IF source[i].secure THEN SameSiteNone ELSE SameSiteLax

\* C13: a cookie of the browser, exported and imported again, has the domain,
\* path, name, value and sameSite it had.
C13_RoundTrip ==
    \A i \in 1..Len(converted) :
        ~IsPortable(source[i]) =>
            LET back == ToPlaywright(converted[i])
            IN  /\ back.domain = source[i].domain
                /\ back.path = source[i].path
                /\ back.name = source[i].name
                /\ back.value = source[i].value
                /\ back.sameSite = source[i].sameSite

\* A cookie with the policy None and without the secure flag has been exported.
C13_Witness ==
    /\ pc = "e_backup"
    /\ \E i \in 1..Len(converted) :
        /\ source[i].sameSite = SameSiteNone
        /\ ~source[i].secure
        /\ converted[i].sameSite = Str("none", "lower")

(***************************************************************************)
(* Properties of the public operations                                     *)
(***************************************************************************)
\* The positions at which an operation has ended.
Ended == {"i_returned", "e_returned", "k_returned", "escaped"}

\* C15: check_logged_in, import_cookies_to_profile and
\* export_cookies_from_profile catch every failure of a primitive and return
\* a value: no exception leaves the operation.
C15_NoEscapePublic == pc # "escaped"

\* C16: when check_logged_in, import_cookies_to_profile or
\* export_cookies_from_profile has ended, by a return or by an exception, the
\* browser it launched is closed.
C16_ClosedWhenEnded == (pc \in Ended) => browser # "open"

\* C19: check_logged_in returns true only when the final URL is on the
\* console's domain and contains the network, the rule of the login.
C19_CheckRequiresTenant ==
    (pc = "k_returned" /\ ret.returned) =>
        (Host(current_url) = CONSOLE /\ Contains(current_url, network))

(***************************************************************************)
(* Properties of the login, continued                                      *)
(***************************************************************************)
\* The positions inside _verify_verification_step.
HandlerAt ==
    {"v_shot", "v_body", "v_pk_click", "v_pk_wait", "v_pk_continue", "v_alt",
     "v_device", "v_dev_shot", "v_dev_wait", "v_dev_after", "v_generic", "v_return"}

\* C17: once invoked, the verification handler goes on to its return of the
\* passed result whichever primitive fails in it: it never raises.
C17_HandlerNeverRaises ==
    [][(pc \in HandlerAt) =>
          ((pc' \in HandlerAt \cup {"l_verified"}) /\
           (pc' = "l_verified" => verification_result'.success))]_vars

\* C20: an attempt of the login that ended in a failure took a screenshot.
C20_FailedHasScreenshot ==
    (pc = "r_check" /\ ~result.success) => shots # {}

\* The login under the scheduling of the event loop: a coroutine that can take
\* a step takes it, every wait of the driver being bounded by its timeout.
SpecLive == Spec /\ WF_vars(Next)

\* C18: every invocation of login_only eventually returns a result.
C18_Terminates == <>(pc = "lo_returned" /\ IsResult(ret))

\* login_only has returned after all the attempts failed.
C18_Witness ==
    /\ pc = "lo_returned"
    /\ logins = max_retries
    /\ ret = Result(FALSE, MsgExhausted)

(***************************************************************************)
(* Properties of the verification handler                                  *)
(***************************************************************************)
\* The handler did e in this invocation.
Did(e) == \E i \in 1..Len(vlog) : vlog[i] = e

\* The place of the first e in the history, or 0.
Place(e) == IF Did(e) THEN CHOOSE i \in 1..Len(vlog) : vlog[i] = e /\ \A j \in 1..(i - 1) : vlog[j] # e
            ELSE 0

\* The branch performed its action: a click, or a wait for the human.
Acted(branch) ==
    CASE branch = "passkey" -> Did(<<"click", "passkey">>) \/ Did(<<"wait", "passkey">>)
      [] branch = "device" -> Did(<<"wait", "device">>)
      [] OTHER -> Did(<<"click", "identifierNext">>)

\* C22: what a primitive raises inside the passkey, the device-approval or the
\* generic branch never leaves the handler, and the handler reaches its return
\* only after it entered the three branches, in that order.
C22_BranchesIsolated ==
    /\ (\E b \in {"passkey", "device", "generic"} : Did(<<"raise", b>>)) =>
            pc \in HandlerAt \cup {"l_verified"}
    /\ pc \in {"v_dev_shot", "v_dev_wait", "v_dev_after", "v_generic"} =>
            Did(<<"try", "passkey">>)
    /\ pc \in {"v_return", "l_verified"} =>
            /\ 0 < Place(<<"try", "passkey">>)
            /\ Place(<<"try", "passkey">>) < Place(<<"try", "device">>)
            /\ Place(<<"try", "device">>) < Place(<<"try", "generic">>)

\* The passkey branch and the device-approval branch both raised, and the
\* generic branch was entered.
C22_Witness ==
    /\ pc = "v_return"
    /\ Did(<<"raise", "passkey">>)
    /\ Did(<<"raise", "device">>)
    /\ Did(<<"try", "generic">>)

\* C23: at most one of the three branches performs its action in one
\* invocation of the handler.
C23_FirstMatchWins ==
    Cardinality({b \in {"passkey", "device", "generic"} : Acted(b)}) <= 1

\* C24: when the passkey keywords were in the page content and no primitive of
\* the branch raised, the branch clicked the passkey affordance, waited for the
\* continue affordance, and clicked it exactly when it had appeared.
C24_PasskeyClicked ==
    (/\ pc \in {"v_device", "v_generic", "v_return", "l_verified"}
     /\ Did(<<"detect", "passkey">>)
     /\ ~Did(<<"raise", "passkey">>)) =>
        /\ Did(<<"click", "passkey">>)
        /\ Place(<<"click", "passkey">>) < Place(<<"wait", "passkey">>)
        /\ Did(<<"click", "continue">>) <=> Did(<<"appeared", "continue">>)

\* C25: between entering the device-approval branch and entering the generic
\* branch the handler clicks nothing: it detects, writes the screenshots and
\* the file of the image data, waits, or catches what was raised.
C25_DeviceNoClick ==
    LET d == Place(<<"try", "device">>)
        g == IF Did(<<"try", "generic">>) THEN Place(<<"try", "generic">>)
             ELSE Len(vlog) + 1
    IN  \A i \in 1..Len(vlog) :
            (0 < d /\ d < i /\ i < g) =>
                vlog[i][1] \in {"detect", "shot", "file", "wait", "raise"}

\* The device-approval branch has waited its window and taken its last screenshot.
C25_Witness ==
    /\ pc = "v_generic"
    /\ Did(<<"wait", "device">>)
    /\ Did(<<"shot", "verification_after_wait.png">>)

(***************************************************************************)
(* Properties of the attempts of the login                                 *)
(***************************************************************************)
\* C21: when an attempt failed by an exception, it yields its failure to the
\* retry loop whether the screenshot of the failure could be taken or not.
C21_ScreenshotNonFatal ==
    [][(pc = "l_except") => (pc' = "r_check" /\ ~result'.success)]_vars

\* The positions of an attempt after its navigation.
AfterGoto ==
    {"l_branch", "l_email_wait", "l_email_fill", "l_email_click", "l_pw_wait",
     "l_pw_fill", "l_pw_click", "l_settle", "v_call", "l_verified", "l_wait_url",
     "l_final", "l_idle", "l_settle3"} \cup (HandlerAt \ {"v_return"}) \cup {"v_return"}

\* C26: every call of _login, the first and each retry, enters at the
\* navigation with no step of the attempt done, and an attempt is at a later
\* position only after its own navigation.
C26_FreshAttempt ==
    /\ [](pc = "l_goto" => (steps = << >> /\ landed = NoURL))
    /\ [](pc \in AfterGoto => landed # NoURL)
    /\ [][(logins' # logins) => (pc' = "l_goto" /\ logins' = logins + 1)]_vars

\* A retry after a failure of the password step has navigated again.
C26_Witness ==
    /\ logins = 2
    /\ pc = "l_branch"
    /\ result = Result(FALSE, MsgPassword)

\* C27: an attempt that failed at the email step did nothing of the password
\* step or of the verification handler, one that failed at the password step
\* did not call the handler; after such a failure the loop goes to its delay
\* when fewer than 5 attempts were made, and the head of the loop then starts
\* a new attempt.
C27_StepFailureEndsAttempt ==
    /\ []((pc = "r_check" /\ result = Result(FALSE, MsgEmail)) =>
            (\A i \in 1..Len(steps) : steps[i] \in {"email_fill", "email_submit"}))
    /\ []((pc = "r_check" /\ result = Result(FALSE, MsgPassword)) =>
            (\A i \in 1..Len(steps) : steps[i] # "verify"))
    /\ [][(/\ pc = "r_check"
           /\ result \in {Result(FALSE, MsgEmail), Result(FALSE, MsgPassword)}
           /\ logins < max_retries) => pc' = "r_wait"]_vars
    /\ [][(pc = "r_loop" /\ logins < max_retries) =>
              (pc' = "l_goto" /\ logins' = logins + 1)]_vars

\* A new attempt has started after a failure of the email step.
C27_Witness ==
    /\ pc = "l_goto"
    /\ logins = 2
    /\ result = Result(FALSE, MsgEmail)

\* C28: after the verification handler returned, the attempt goes on to the
\* tenant check only with the page on the console's domain.
C28_NoRedirectFails ==
    (pc \in {"l_final", "l_idle", "l_settle3"} /\ steps = AuthSequence) =>
        Host(url) = CONSOLE

\* C29: an attempt whose navigation raised returns the failure with the error
\* to the retry loop: the exception does not leave _login.
C29_NavigationFailureReturned ==
    [][(pc = "l_except" /\ landed = NoURL) =>
           (pc' = "r_check" /\ result' = Result(FALSE, MsgAuthError))]_vars

\* C30: the loop returns at the first success: when attempt k succeeded, k calls
\* of _login and k - 1 waits were made, and the loop returns that result.
C30_StopsAtFirstSuccess ==
    /\ []((pc \in {"r_check", "lo_result"} /\ result.success) =>
            /\ logins = attempt + 1
            /\ logins \in 1..max_retries
            /\ Len(waits) = logins - 1
            /\ result = Result(TRUE, MsgLoginOk))
    /\ [][(pc = "r_check" /\ result.success) =>
              (pc' = "lo_result" /\ result' = result /\ logins' = logins)]_vars

\* The third attempt succeeded and the loop returned.
C30_Witness ==
    /\ pc = "lo_result"
    /\ result.success
    /\ logins = 3
    /\ Len(waits) = 2

(***************************************************************************)
(* Properties of create_url, continued                                     *)
(***************************************************************************)
\* C31: create_url_button, _set_brand_type and _save_url have a strategy that
\* completed only when the control was on the page and a strategy interacted
\* with it.
C31_SuccessMeansInteracted ==
    (op \in {"new_url_button", "brand_type", "save_button"} /\ won # 0) =>
        (present[stage] /\ acted)

\* C32: the overlay dialogs are dismissed after the navigation, on the
\* resource-list page of the network.
C32_DialogsAfterNavigation ==
    (pc \in {"s_dialogs", "s_dialogs2"}) =>
        (landed # NoURL /\ Host(url) = CONSOLE /\ Contains(url, network))

\* The place of a step in the action.
StepIndex(o) ==
    CASE o = "new_url_button" -> 1
      [] o = "url_input" -> 2
      [] o = "inventory_type" -> 3
      [] o = "brand_type" -> 4
      [] o = "save_button" -> 5
      [] OTHER -> 0

\* The step an interaction belongs to; the navigation and the dismissal of a
\* dialog belong to none.
InteractionStep(e) ==
    CASE e = "click:new_url" -> 1
      [] e = "fill:url" -> 2
      [] e \in {"click:inventory_dropdown", "click:inventory_option"} -> 3
      [] e = "click:brand" -> 4
      [] e = "click:save" -> 5
      [] OTHER -> 0

\* The number of navigations performed.
Navigations == Cardinality({i \in 1..Len(ui) : ui[i] = "goto"})

\* C33: when a step of create_url raised, the failure is returned at once:
\* nothing of a later step has been done, the save button is clicked only if
\* the failing step is the save itself, the page was navigated to once, the
\* result is a failure and create_url returns success=false.
C33_FailFast ==
    /\ []((pc = "o_raise" \/ (IsResult(result) /\ result.message \in {MsgClickFailed, MsgConfigureFailed})) =>
            /\ \A i \in 1..Len(ui) : InteractionStep(ui[i]) <= StepIndex(op)
            /\ Navigations = 1
            /\ pc # "o_raise" => ~result.success
            /\ pc = "c_returned" => ~ret.success)
    /\ [][(pc = "o_raise") => (pc' = "c_close" /\ ~result'.success /\ ui' = ui)]_vars

\* The brand type was refused after the URL was filled and the inventory type
\* selected; create_url returned the failure and the save button was never
\* clicked.
C33_Witness ==
    /\ pc = "c_returned"
    /\ op = "brand_type"
    /\ ret = Result(FALSE, MsgConfigureFailed)
    /\ \E i \in 1..Len(ui) : ui[i] = "click:inventory_option"
    /\ \A i \in 1..Len(ui) : ui[i] # "click:save"

\* configure_url: the values passed to _set_url_field, _set_inventory_type
\* and _set_brand_type.
Entered(d) ==
    [url |-> Get(d, "url", ""),
     inventory_type |-> Get(d, "inventory_type", "Display"),
     brand_type |-> Get(d, "brand_type", "Com marca")]

\* C39: when create_url returns success the echoed data are the values entered
\* into the form.
C39_EchoIsEntered ==
    (IsResult(ret) /\ ret.success /\ ret.message = MsgCreated) => ret.data = Entered(data)

(***************************************************************************)
(* Properties of the cookie exports                                        *)
(***************************************************************************)
\* A domain of the target service: google.com or a subdomain of it.
OnServiceDomain(d) ==
    /\ d[Len(d)] = "google.com"
    /\ Len(d) > 1 => d[Len(d) - 1] = "."

\* C36: every file an export wrote holds only cookies of the target service's
\* domains, and whenever the latest file is written a timestamped backup with
\* the same cookie list is written too.
C36_ExportFiles ==
    \A f \in files :
        /\ \A i \in 1..Len(f.content) : OnServiceDomain(f.content[i].domain)
        /\ f.name = "cookies_latest.json" =>
              \E g \in files : /\ g.name = "cookies_backup_<timestamp>.json"
                               /\ g.content = f.content

\* C38: in login_only the export runs only after a successful login and with
\* the browser still open; whether it fails or not, login_only goes on to
\* close the browser with the result unchanged, and what it then returns from
\* its normal path is the success result, with the browser closed.
C38_ExportFailureIgnored ==
    /\ [](pc = "lo_export" => (result = Result(TRUE, MsgLoginOk) /\ browser = "open"))
    /\ [](files # {} => (IsResult(result) /\ result.success))
    /\ [][(pc = "lo_export") =>
              (pc' = "lo_close" /\ result' = result /\ browser' = browser)]_vars
    /\ []((pc = "lo_returned" /\ ret # Result(FALSE, MsgDemoError)) =>
              (ret = result /\ browser = "closed"))

\* The export failed (no file was written) and login_only returned the
\* success with the browser closed.
C38_Witness ==
    /\ pc = "lo_returned"
    /\ ret = Result(TRUE, MsgLoginOk)
    /\ browser = "closed"
    /\ files = {}

(***************************************************************************)
(* Properties of the cookie import, continued                              *)
(***************************************************************************)
\* C34: the normalized sameSite of an imported cookie is the one the import
\* gives to the same cookie with its sameSite written in any other letter case.
C34_CaseInsensitive ==
    \A i \in 1..Len(converted) :
        (IsPortable(source[i]) /\ source[i].sameSite.form \in Forms) =>
            \A f \in Forms :
                NormalizeSameSite([source[i] EXCEPT !.sameSite = Str(@.word, f)])
                    = converted[i].sameSite

\* C35: the import injects the converted cookies into the session before it
\* navigates, and the value it returns after the navigation is True exactly
\* when the final URL is on the console's host, not on the identity provider's.
C35_ImportVerdict ==
    /\ (pc \in {"i_newpage", "i_goto", "i_wait", "i_verdict"}) =>
          (store = converted /\ browser = "open")
    /\ (pc = "i_goto") => url = NoURL
    /\ (pc \in {"i_close", "i_stop"} \/ (pc = "i_returned" /\ browser # "none")) =>
          /\ store = converted
          /\ result = Returned(Host(url) = CONSOLE)
          /\ pc = "i_returned" => ret = result

\* A cookie was injected, the navigation stayed on the console and the import
\* returned True.
C35_Witness ==
    /\ pc = "i_returned"
    /\ ret = Returned(TRUE)
    /\ store # << >>
    /\ Host(url) = CONSOLE

(***************************************************************************)
(* Properties of two operations on one profile                             *)
(***************************************************************************)
\* C37: no operation is kept from launching its browser by the other: at its
\* launch each can open the persistent context whatever the other holds, and
\* the directory the login opens is the one check_logged_in opens.
C37_NoMutualExclusion ==
    /\ (peer.pc = "launch") => ENABLED (PeerStep /\ peer'.browser = "open")
    /\ (pc = "k_launch") => ENABLED (CheckPrimitive /\ browser' = "open")
    /\ (peer.browser = "open") => peer.dir = UserDataDir("check_logged_in")

\* check_logged_in and the login both hold an open browser on the same
\* directory.
C37_Witness ==
    /\ browser = "open"
    /\ pc \in {"k_newpage", "k_goto", "k_idle", "k_wait", "k_verdict", "k_close"}
    /\ peer.browser = "open"
    /\ peer.pc \in {"newpage", "login", "close"}
    /\ peer.dir = UserDataDir("check_logged_in")

====
